---- MODULE Spec2Model ----
(***************************************************************************)
(* Model of the typing animation engine of green-code-fx                   *)
(* (VideoGenerator.generate_typing_effect, src/src/video_generator.py).    *)
(*                                                                         *)
(* Strings are sequences of one-character strings.  Indices keep the       *)
(* source's 0-based convention; s[i] of the source is s[i + 1] here.       *)
(***************************************************************************)
EXTENDS Integers, Sequences, FiniteSets, TLC

(***************************************************************************)
(* Bounds of the model.                                                    *)
(***************************************************************************)
MaxLines == 2
MaxLineLen == 4
MaxErrorDelayFrames == 1
MaxFitLines == 2
MaxEventsPerFrame == 2
MaxDisplayLen == 9
Fps == 4
MaxDuration == 31
ViewportHeight == 2

(* the largest max_access_count of a shareable link *)
MaxAccessCount == 2

(* the largest max_shutdown_wait of the shutdown handler, seconds *)
MaxShutdownWait == 4

(* the largest max_retries of execute_retry_strategy *)
MaxRetries == 3

(* worker threads inside is_allowed at once, requests, limit, clock reads *)
MaxThreads == 2

MaxRequests == 4

MaxRequestsPerMinute == 2

MaxClockSteps == 3

(* time.time() is kept in ticks of 1 / TicksPerSecond seconds *)
TicksPerSecond == 2

(***************************************************************************)
(* Program constants (src/src/config.py).                                  *)
(***************************************************************************)
TYPING_SCROLL_LINE_THRESHOLD == 92
TYPING_LOOP_PAUSE_SECONDS == 2
TYPING_FADE_FRAMES == 30
TYPING_CURSOR_BLINK_HZ == 1
TYPING_WPM == 150

(* ResourceMonitor.thresholds, percent *)
cpu_moderate == 70
cpu_high == 85
cpu_critical == 95
memory_moderate == 70
memory_high == 85
memory_critical == 95
disk_moderate == 80
disk_high == 90
disk_critical == 95

(* config.MAX_CONCURRENT_JOBS, the default *)
MAX_CONCURRENT_JOBS == 2

(* _wait_for_jobs_completion: time.sleep(2) between two checks *)
SHUTDOWN_POLL_SECONDS == 2

(* RateLimiter.window_size, seconds *)
WINDOW_SIZE == 60

(***************************************************************************)
(* Inputs: the characters of the source text ("a" is in the typo alphabet, *)
(* "b" stands for a character outside it) and of the typo alphabet.        *)
(***************************************************************************)
TypoChars == {"a", "x"}

LineOfLen(n) == [i \in 1..n |-> IF i % 2 = 1 THEN "a" ELSE "b"]

LineLens == {0, 1, MaxLineLen}

LineSet == {LineOfLen(n) : n \in LineLens}

SeqsUpTo(S, n) == UNION {[1..k -> S] : k \in 0..n}

LineBuffers == SeqsUpTo(LineSet, MaxLines)

(***************************************************************************)
(* One larger input: seven one-character lines in a viewport that fits     *)
(* five.                                                                   *)
(***************************************************************************)
SevenLines == [i \in 1..7 |-> LineOfLen(1)]

FitsFive == {5}

Min(a, b) == IF a < b THEN a ELSE b

Max(a, b) == IF a > b THEN a ELSE b

IsPrefix(s, t) == Len(s) <= Len(t) /\ \A i \in 1..Len(s) : s[i] = t[i]

(***************************************************************************)
(* Derived parameters.                                                     *)
(***************************************************************************)
MaxVisibleLines(fit) == Min(TYPING_SCROLL_LINE_THRESHOLD, Max(1, fit))

CursorBlinkInterval == Fps \div (2 * TYPING_CURSOR_BLINK_HZ)

PauseDurationFrames == TYPING_LOOP_PAUSE_SECONDS * Fps

FadeDurationFrames == TYPING_FADE_FRAMES

VARIABLES
    code_lines, typo_positions, error_delay_frames, max_visible_lines,
    plan_idx, pc,
    current_line, current_char, typed_lines, current_display_line,
    typing_state_inner, typo_buffer, typo_correct_char, typo_delay_counter,
    backspace_count, correction_index, typo_error_pos,
    scroll_offset, cursor_visible, cursor_blink_timer,
    pause_timer, fade_timer, loop_state,
    timer_active, pending, frame,
    duration, typing_speed, output_format, progress_callback,
    frame_count, running, frames, progress, output_file, last_frame,
    run_no, first_run,
    other_job,
    job,
    columns, speed, reset_variance_px,
    requests_per_minute, client_requests, wall_clock, clock_steps, calls,
    decisions, response,
    upload, retry, shutdown, link, batch,
    resources, preview

inputVars == <<code_lines, error_delay_frames, max_visible_lines>>

planVars == <<typo_positions, plan_idx>>

lineVars == <<current_char, current_display_line, typing_state_inner,
              typo_buffer, typo_correct_char, typo_delay_counter,
              backspace_count, correction_index, typo_error_pos>>

typingVars == <<current_line, typed_lines, lineVars>>

renderVars == <<scroll_offset, cursor_visible, cursor_blink_timer, frame>>

loopVars == <<pause_timer, fade_timer, loop_state>>

(* parameters of the call and the driver loop's own state *)
paramVars == <<duration, typing_speed, output_format, progress_callback>>

driverVars == <<paramVars, frame_count, running, frames, progress,
                output_file, last_frame>>

(* a second run of the same call, for comparing two runs *)
twoRunVars == <<run_no, first_run>>

(* the rain engine *)
rainVars == <<columns, speed, reset_variance_px>>

(* the rate limiter of the web API *)
rateVars == <<requests_per_minute, client_requests, wall_clock, clock_steps,
              calls, decisions, response>>

(***************************************************************************)
(* The other services of the web API, each kept in one record: the text    *)
(* file uploaded with a typing request, a retried operation, the shutdown  *)
(* handler, a shareable link and a batch job.                              *)
(***************************************************************************)
serviceVars == <<upload, retry, shutdown, link, batch>>

(* the resource monitor with the job queue it throttles, and the preview   *)
(* sessions of the WebSocket server, each kept in one record               *)
supportVars == <<resources, preview>>

elsewhereVars == <<rainVars, rateVars, serviceVars, supportVars>>

(* everything outside one call of generate_typing_effect *)
outsideVars == <<twoRunVars, other_job, job, elsewhereVars>>

vars == <<inputVars, planVars, pc, typingVars, renderVars, loopVars,
          timer_active, pending, driverVars, outsideVars>>

(***************************************************************************)
(* The frame last composited, as far as the claims look at it.             *)
(***************************************************************************)
NoFrame == [scroll_offset |-> 0, visible_line_count |-> 0,
            partial_drawn |-> FALSE, cursor_drawn |-> FALSE,
            fade_alpha |-> 0]

(***************************************************************************)
(* What the sink was last handed: the frame index and what was drawn.      *)
(***************************************************************************)
NoLastFrame == [index |-> -1, image |-> NoFrame, lines |-> <<>>,
                partial |-> <<>>, loop_state |-> "typing"]

(* the job entry of the web API; status "none" when there is no entry *)
NoJob == [status |-> "none", progress |-> 0, output_file |-> FALSE]

(* the session variables as the call initialises them, before the loop *)
SessionStart ==
    /\ typo_positions = {}
    /\ plan_idx = 0
    /\ current_line = 0
    /\ current_char = 0
    /\ typed_lines = <<>>
    /\ current_display_line = <<>>
    /\ typing_state_inner = "normal"
    /\ typo_buffer = <<>>
    /\ typo_correct_char = ""
    /\ typo_delay_counter = 0
    /\ backspace_count = 0
    /\ correction_index = 0
    /\ typo_error_pos = 0
    /\ scroll_offset = 0
    /\ cursor_visible = TRUE
    /\ cursor_blink_timer = 0
    /\ pause_timer = 0
    /\ fade_timer = 0
    /\ loop_state = "typing"
    /\ timer_active = FALSE
    /\ pending = 0
    /\ frame = NoFrame

(* frame_count = 0, running = True, an empty frames directory *)
DriverStart ==
    /\ frame_count = 0
    /\ running = TRUE
    /\ frames = <<>>
    /\ progress = <<>>
    /\ output_file = FALSE
    /\ last_frame = NoLastFrame

(* no rain effect running *)
NoRain ==
    /\ columns = <<>>
    /\ speed = 1
    /\ reset_variance_px = 0

(* no request made of the web API *)
NoRateLimiter ==
    /\ requests_per_minute = 1
    /\ client_requests = <<>>
    /\ wall_clock = 0
    /\ clock_steps = 0
    /\ calls = <<>>
    /\ decisions = <<>>
    /\ response = [status |-> 0, headers |-> <<>>]

(* a request without a text file *)
NoUpload == [text_file |-> "none", custom_text |-> FALSE,
             uploaded_file_path |-> FALSE, temp_file |-> FALSE]

(* no error yet (last_error = None), and no retried operation *)
NoError == [kind |-> "None", attempt |-> 0]

NoRetry == [max_retries |-> 0, base_delay |-> 0, state |-> "idle",
            attempt |-> 0, calls |-> <<>>, slept |-> <<>>, result |-> 0,
            last_error |-> NoError, error |-> NoError]

(* the shutdown handler before any signal, no job restored at start-up *)
NoShutdown == [max_shutdown_wait |-> 0, restored_running |-> FALSE,
               shutdown_requested |-> FALSE, phase |-> "serving",
               elapsed |-> 0]

(* calls of queue_job that were accepted *)
MaxJobsQueued == 3

(* the threads of the server that handle requests *)
Threads == 1..MaxThreads

(* no shareable link stored, no access *)
NoLink == [stored |-> FALSE, max_access_count |-> 0, access_count |-> 0,
           expires_at |-> FALSE, expired |-> FALSE, password_hash |-> FALSE,
           accesses |-> <<>>, started |-> 0, granted |-> 0, refused |-> 0]

(* no batch created: nothing in active_batches, no control call made *)
NoBatch == [stored |-> FALSE, status |-> "none", started_at |-> FALSE,
            completed_at |-> FALSE, items |-> <<>>, completed_items |-> 0,
            failed_items |-> 0, concurrent_limit |-> 0, thread |-> "none",
            next_item |-> 0, running_items |-> {}, workers |-> <<>>,
            op |-> "none", returned |-> FALSE, ops |-> 0]

(* no resource reading taken, no job queued *)
NoResources == [cpu |-> 0, memory |-> 0, disk |-> 0,
                current_status |-> "healthy", updated |-> FALSE,
                queued |-> 0, running_jobs |-> 0, processor |-> "check",
                queue_result |-> "none", accepted |-> 0]

(* the session_id values of start_preview and stop_preview messages *)
SessionIds == {"s1", "s2"}

(* the connections, each with the client_id handle_connection gives it *)
PreviewClients == {"a", "b"}

(* every client connected, no preview session registered, none ever made *)
NoPreview == [connections |-> PreviewClients,
              preview_sessions |-> [sid \in SessionIds |-> 0],
              made |-> <<>>,
              received |-> [sid \in SessionIds |-> <<>>],
              op |-> "none", session_id |-> "none", client_id |-> "none"]

NoSupport == resources = NoResources /\ preview = NoPreview

NoServices ==
    /\ upload = NoUpload
    /\ retry = NoRetry
    /\ shutdown = NoShutdown
    /\ link = NoLink
    /\ batch = NoBatch

NothingElsewhere == NoRain /\ NoRateLimiter /\ NoServices /\ NoSupport

(* one call on its own: no second run, no other job, no web job entry *)
NothingOutside ==
    /\ run_no = 1
    /\ first_run = NoLastFrame
    /\ other_job = "none"
    /\ job = NoJob
    /\ NothingElsewhere

(***************************************************************************)
(* The typing session of a call with in-range parameters and no progress   *)
(* callback, from the typo planning on.  The claims checked from here look *)
(* at the session, not at the frame index: Frame below does not count      *)
(* frames, which stands for a duration that has not run out.               *)
(***************************************************************************)
Init ==
    /\ \/ /\ code_lines \in LineBuffers
          /\ \E fit \in 0..MaxFitLines :
                max_visible_lines = MaxVisibleLines(fit)
       \/ /\ code_lines = SevenLines
          /\ \E fit \in FitsFive : max_visible_lines = MaxVisibleLines(fit)
    /\ error_delay_frames \in 0..MaxErrorDelayFrames
    /\ pc = "plan"
    /\ SessionStart
    /\ duration = MaxDuration
    /\ typing_speed = TYPING_WPM
    /\ output_format = "mp4"
    /\ progress_callback = FALSE
    /\ DriverStart
    /\ NothingOutside

(***************************************************************************)
(* Precomputation of the typo plan: one iteration of the loop over         *)
(* enumerate(code_lines).  hit is the outcome of                           *)
(* random.random() < typo_probability, pos of random.randint, wrong and    *)
(* alt of the two random.choice calls.  typo_positions is the dict, kept   *)
(* as the set of its items [line, pos, wrong].                             *)
(***************************************************************************)
TypoEligible(line) == Len(line) > 3

TypoPosRange(line) == 0..Max(0, Len(line) - 2)

AltChoices(c) == {x \in TypoChars : x # c}

(* the first choice is kept even when it is the correct character *)
WrongCharNoRetry(wrong, alt, c) == wrong

WrongChar(wrong, alt, c) == IF wrong = c THEN alt ELSE wrong

PlanTypo ==
    /\ pc = "plan"
    /\ plan_idx < Len(code_lines)
    /\ LET line == code_lines[plan_idx + 1] IN
       \E hit \in BOOLEAN :
          IF hit /\ TypoEligible(line)
          THEN \E pos \in TypoPosRange(line) :
               \E wrong \in TypoChars :
               \E alt \in AltChoices(line[pos + 1]) :
                  typo_positions' = typo_positions \cup
                      {[line |-> plan_idx, pos |-> pos,
                        wrong |-> WrongChar(wrong, alt, line[pos + 1])]}
          ELSE typo_positions' = typo_positions
    /\ plan_idx' = plan_idx + 1
    /\ UNCHANGED <<inputVars, pc, typingVars, renderVars, loopVars,
                   timer_active, pending, driverVars, outsideVars>>

(***************************************************************************)
(* char_delay_ms = int(1000 / (typing_speed * 5 / 60)), for a typing speed *)
(* other than 0; int() truncates towards zero.                             *)
(***************************************************************************)
CharDelayMs(wpm) ==
    IF wpm > 0 THEN 12000 \div wpm ELSE -(12000 \div (-wpm))

(* total_frames = duration * fps *)
TotalFrames == duration * Fps

(* the loop stops one frame short of total_frames *)
LoopGuardShort(is_running, count, total) == is_running /\ count + 1 < total

(* while running and frame_count < total_frames *)
LoopGuard(is_running, count, total) == is_running /\ count < total

(***************************************************************************)
(* pygame.time.set_timer(TYPE_EVENT, millis): a positive interval starts   *)
(* the timer, 0 stops it; pygame leaves a negative interval undocumented   *)
(* (the timer is left stopped, or the call raises).                        *)
(***************************************************************************)
SetTimerOutcomes(millis) ==
    IF millis > 0 THEN {"started"}
    ELSE IF millis = 0 THEN {"stopped"}
    ELSE {"stopped", "raised"}

(* the TYPE_EVENTs one pygame.event.get() returns *)
Batch(active) == IF active THEN 0..MaxEventsPerFrame ELSE {0}

(* if progress_callback: progress_callback(v), for each v of vals in turn *)
Report(vals) == IF progress_callback THEN progress \o vals ELSE progress

(***************************************************************************)
(* The callback of a web job, lambda p: update_job_progress(job_id, p):    *)
(* every value reported writes the job entry's progress, so after the      *)
(* reports of a step the entry holds the last one.                         *)
(***************************************************************************)
update_job_progress(reported) ==
    IF job.status # "none" /\ Len(reported) > Len(progress)
    THEN [job EXCEPT !.progress = reported[Len(reported)]]
    ELSE job

(***************************************************************************)
(* From the end of the typo planning to the first evaluation of the loop   *)
(* guard: progress 10 and 15, pygame.time.set_timer(TYPE_EVENT,            *)
(* char_delay_ms), running = True, and the first pygame.event.get() when   *)
(* the loop is entered.                                                    *)
(***************************************************************************)
StartLoop ==
    /\ pc = "plan"
    /\ plan_idx = Len(code_lines)
    /\ progress' = Report(<<10, 15>>)
    /\ \E outcome \in SetTimerOutcomes(CharDelayMs(typing_speed)) :
          IF outcome = "raised"
          THEN /\ pc' = "failed"
               /\ UNCHANGED <<timer_active, pending>>
          ELSE /\ timer_active' = (outcome = "started")
               /\ IF LoopGuard(running, frame_count, TotalFrames)
                  THEN /\ pc' = "run"
                       /\ pending' \in Batch(timer_active')
                  ELSE /\ pc' = "exit"
                       /\ pending' = 0
    /\ UNCHANGED <<inputVars, planVars, typingVars, renderVars, loopVars,
                   paramVars, frame_count, running, frames, output_file,
                   last_frame, twoRunVars, other_job, elsewhereVars>>
    /\ job' = update_job_progress(progress')

InTypoPositions(l, c) == \E t \in typo_positions : t.line = l /\ t.pos = c

TypoAt(l, c) == (CHOOSE t \in typo_positions : t.line = l /\ t.pos = c).wrong

(***************************************************************************)
(* current_display_line += c.  The source's string is unbounded; the model *)
(* keeps its last MaxDisplayLen characters.                                *)
(***************************************************************************)
AppendChar(s, c) ==
    IF Len(s) < MaxDisplayLen THEN Append(s, c) ELSE Append(Tail(s), c)

DropLast(s) == SubSeq(s, 1, Len(s) - 1)

(***************************************************************************)
(* The per-line typing state read and written by one TYPE_EVENT, as a      *)
(* record; fault is set when the handler raises (IndexError).              *)
(***************************************************************************)
LineState ==
    [current_char |-> current_char,
     current_display_line |-> current_display_line,
     typing_state_inner |-> typing_state_inner,
     typo_buffer |-> typo_buffer,
     typo_correct_char |-> typo_correct_char,
     typo_delay_counter |-> typo_delay_counter,
     backspace_count |-> backspace_count,
     correction_index |-> correction_index,
     typo_error_pos |-> typo_error_pos,
     fault |-> FALSE]

(* typing_state_inner == "normal" *)
NormalKey(line, s) ==
    IF s.current_char >= Len(line)
    THEN [s EXCEPT !.fault = TRUE]
    ELSE IF InTypoPositions(current_line, s.current_char)
    THEN [s EXCEPT
            !.current_display_line =
                AppendChar(@, TypoAt(current_line, s.current_char)),
            !.typo_correct_char = line[s.current_char + 1],
            !.typo_error_pos = s.current_char,
            !.current_char = @ + 1,
            !.typing_state_inner = "post_typo",
            !.typo_delay_counter = error_delay_frames,
            !.typo_buffer = <<>>]
    ELSE [s EXCEPT
            !.current_display_line = AppendChar(@, line[s.current_char + 1]),
            !.current_char = @ + 1]

(* the countdown never ends the wait: only the end of the line does *)
CountdownNeverOver(counter) == FALSE

(* typo_delay_counter <= 0 *)
CountdownOver(counter) == counter <= 0

(* the wrong character itself is not counted *)
BackspaceCountBufferOnly(buffer) == Len(buffer)

(* backspace_count = len(typo_buffer) + 1 *)
BackspaceCount(buffer) == Len(buffer) + 1

(* typing_state_inner == "post_typo" *)
PostTypoKey(line, s) ==
    LET s1 == IF s.current_char < Len(line)
              THEN [s EXCEPT
                      !.current_display_line =
                          AppendChar(@, line[s.current_char + 1]),
                      !.typo_buffer = Append(@, line[s.current_char + 1]),
                      !.current_char = @ + 1]
              ELSE s
        s2 == [s1 EXCEPT !.typo_delay_counter = @ - 1]
    IN  IF CountdownOver(s2.typo_delay_counter) \/ s2.current_char >= Len(line)
        THEN [s2 EXCEPT
                !.typing_state_inner = "backspacing",
                !.backspace_count = BackspaceCount(s2.typo_buffer),
                !.current_char = s2.typo_error_pos]
        ELSE s2

(* typing_state_inner == "backspacing" *)
BackspacingKey(s) ==
    LET s1 == IF s.backspace_count > 0 /\ s.current_display_line # <<>>
              THEN [s EXCEPT
                      !.current_display_line = DropLast(@),
                      !.backspace_count = @ - 1]
              ELSE s
    IN  IF s1.backspace_count <= 0
        THEN [s1 EXCEPT
                !.typing_state_inner = "correcting",
                !.correction_index = 0]
        ELSE s1

(* typing_state_inner == "correcting" *)
CorrectingKey(s) ==
    LET s1 == IF s.correction_index = 0
              THEN [s EXCEPT
                      !.current_display_line =
                          AppendChar(@, s.typo_correct_char),
                      !.correction_index = @ + 1]
              ELSE IF s.correction_index <= Len(s.typo_buffer)
              THEN [s EXCEPT
                      !.current_display_line =
                          AppendChar(@, s.typo_buffer[s.correction_index]),
                      !.correction_index = @ + 1]
              ELSE s
    IN  IF s1.correction_index > Len(s1.typo_buffer)
        THEN [s1 EXCEPT
                !.typing_state_inner = "normal",
                !.typo_buffer = <<>>,
                !.typo_correct_char = ""]
        ELSE s1

KeyStep(line, s) ==
    CASE s.typing_state_inner = "normal" -> NormalKey(line, s)
      [] s.typing_state_inner = "post_typo" -> PostTypoKey(line, s)
      [] s.typing_state_inner = "backspacing" -> BackspacingKey(s)
      [] s.typing_state_inner = "correcting" -> CorrectingKey(s)

(* the line is committed one character early *)
LineDoneEarly(inner, char, display, line) ==
    inner = "normal" /\ char >= Len(line) - 1

(* the line is committed as soon as the display line is as long as it *)
LineDoneDisplayFull(inner, char, display, line) ==
    Len(display) >= Len(line)

(* if typing_state_inner == "normal" and current_char >= len(line) *)
LineDone(inner, char, display, line) ==
    inner = "normal" /\ char >= Len(line)

SetLineVars(s) ==
    /\ current_char' = s.current_char
    /\ current_display_line' = s.current_display_line
    /\ typing_state_inner' = s.typing_state_inner
    /\ typo_buffer' = s.typo_buffer
    /\ typo_correct_char' = s.typo_correct_char
    /\ typo_delay_counter' = s.typo_delay_counter
    /\ backspace_count' = s.backspace_count
    /\ correction_index' = s.correction_index
    /\ typo_error_pos' = s.typo_error_pos

(* the end of the buffer is tested one line late *)
HasLineInclusive(cur, lines) == cur <= Len(lines)

(* if current_line < len(code_lines) *)
HasLine(cur, lines) == cur < Len(lines)

(***************************************************************************)
(* One event of the batch returned by pygame.event.get():                  *)
(* elif event.type == TYPE_EVENT and loop_state == "typing".               *)
(* code_lines[current_line] raises IndexError beyond the end of the list.  *)
(***************************************************************************)
TypeEvent ==
    /\ pc = "run"
    /\ pending > 0
    /\ pending' = pending - 1
    /\ IF loop_state # "typing"
       THEN UNCHANGED <<pc, typingVars, loopVars, timer_active>>
       ELSE IF HasLine(current_line, code_lines)
       THEN LET line == code_lines[current_line + 1]
                s == IF current_line < Len(code_lines)
                     THEN KeyStep(line, LineState)
                     ELSE [LineState EXCEPT !.fault = TRUE]
            IN  IF s.fault
                THEN /\ pc' = "failed"
                     /\ UNCHANGED <<typingVars, loopVars, timer_active>>
                ELSE IF LineDone(s.typing_state_inner, s.current_char,
                                 s.current_display_line, line)
                THEN /\ typed_lines' =
                            Append(typed_lines, s.current_display_line)
                     /\ SetLineVars([s EXCEPT !.current_display_line = <<>>,
                                              !.current_char = 0])
                     /\ current_line' = current_line + 1
                     /\ UNCHANGED <<pc, loopVars, timer_active>>
                ELSE /\ SetLineVars(s)
                     /\ UNCHANGED <<pc, current_line, typed_lines, loopVars,
                                    timer_active>>
       ELSE /\ loop_state' = "paused"
            /\ pause_timer' = 0
            /\ timer_active' = FALSE
            /\ UNCHANGED <<pc, typingVars, fade_timer>>
    /\ UNCHANGED <<inputVars, planVars, renderVars, driverVars, outsideVars>>

(***************************************************************************)
(* Frame composition: scrolling, visible lines, partial line and caret.    *)
(***************************************************************************)
TotalLinesToDisplay ==
    Len(typed_lines) + (IF current_line < Len(code_lines) THEN 1 ELSE 0)

(* the offset is computed without the test for a full viewport *)
ScrollOffsetNoGuard(total, cap) == total - cap + 1

(* scrolling starts one line late *)
ScrollOffsetLate(total, cap) == IF total > cap THEN total - cap ELSE 0

ScrollOffset(total, cap) == IF total >= cap THEN total - cap + 1 ELSE 0

(* the loop over enumerate(typed_lines): skip i < scroll, stop at cap lines *)
VisibleLineCount(ntyped, scroll, cap) == Min(Max(ntyped - scroll, 0), cap)

PartialVisible(visible, scroll) ==
    /\ current_line < Len(code_lines)
    /\ visible < max_visible_lines
    /\ Len(typed_lines) - scroll < max_visible_lines

(* min(int((fade_timer / fade_duration_frames) * 255), 255), in integers *)
FadeAlpha(timer) == Min((timer * 255) \div FadeDurationFrames, 255)

(* the pause lasts one frame too long *)
PauseOverLate(timer) == timer > PauseDurationFrames

(* pause_timer >= pause_duration_frames *)
PauseOver(timer) == timer >= PauseDurationFrames

(* fade_timer >= fade_duration_frames *)
FadeOver(timer) == timer >= FadeDurationFrames

(* the caret toggles one frame late *)
BlinkDueLate(timer) == timer > CursorBlinkInterval

(* if cursor_blink_timer >= cursor_blink_interval *)
BlinkDue(timer) == timer >= CursorBlinkInterval

(* the reset forgets the caret *)
RestartResetKeepsCursor ==
    /\ current_line' = 0
    /\ current_char' = 0
    /\ typed_lines' = <<>>
    /\ scroll_offset' = 0
    /\ cursor_visible' = cursor_visible
    /\ cursor_blink_timer' = 0
    /\ pause_timer' = 0
    /\ fade_timer' = 0
    /\ loop_state' = "typing"
    /\ timer_active' = TRUE

(* elif loop_state == "restarting": reset all state for the next loop and   *)
(* restart the typing timer                                                *)
RestartReset ==
    /\ current_line' = 0
    /\ current_char' = 0
    /\ typed_lines' = <<>>
    /\ scroll_offset' = 0
    /\ cursor_visible' = TRUE
    /\ cursor_blink_timer' = 0
    /\ pause_timer' = 0
    /\ fade_timer' = 0
    /\ loop_state' = "typing"
    /\ timer_active' = TRUE

(***************************************************************************)
(* The rest of one iteration of the main loop, after the events: compose   *)
(* the frame, then the loop state transitions.                             *)
(***************************************************************************)
ComposeFrame ==
    /\ LET scroll == ScrollOffset(TotalLinesToDisplay, max_visible_lines)
           visible == VisibleLineCount(Len(typed_lines), scroll,
                                       max_visible_lines)
           partial == PartialVisible(visible, scroll)
           timer1 == cursor_blink_timer + 1
           toggles == partial /\ BlinkDue(timer1)
           cursor == IF toggles THEN ~cursor_visible ELSE cursor_visible
           blink == IF ~partial THEN cursor_blink_timer
                    ELSE IF toggles THEN 0 ELSE timer1
       IN  /\ frame' = [scroll_offset |-> scroll,
                        visible_line_count |-> visible,
                        partial_drawn |-> partial,
                        cursor_drawn |-> partial /\ cursor,
                        fade_alpha |-> IF loop_state = "fading"
                                       THEN FadeAlpha(fade_timer + 1)
                                       ELSE 0]
           /\ CASE loop_state = "typing" ->
                     /\ scroll_offset' = scroll
                     /\ cursor_visible' = cursor
                     /\ cursor_blink_timer' = blink
                     /\ UNCHANGED <<typingVars, loopVars, timer_active>>
                [] loop_state = "paused" ->
                     /\ scroll_offset' = scroll
                     /\ cursor_visible' = cursor
                     /\ cursor_blink_timer' = blink
                     /\ pause_timer' = pause_timer + 1
                     /\ IF PauseOver(pause_timer + 1)
                        THEN loop_state' = "fading" /\ fade_timer' = 0
                        ELSE UNCHANGED <<loop_state, fade_timer>>
                     /\ UNCHANGED <<typingVars, timer_active>>
                [] loop_state = "fading" ->
                     /\ scroll_offset' = scroll
                     /\ cursor_visible' = cursor
                     /\ cursor_blink_timer' = blink
                     /\ fade_timer' = fade_timer + 1
                     /\ loop_state' = IF FadeOver(fade_timer + 1)
                                      THEN "restarting" ELSE "fading"
                     /\ UNCHANGED <<typingVars, pause_timer, timer_active>>
                [] loop_state = "restarting" ->
                     /\ RestartReset
                     /\ UNCHANGED <<current_display_line, typing_state_inner,
                                    typo_buffer, typo_correct_char,
                                    typo_delay_counter, backspace_count,
                                    correction_index, typo_error_pos>>

(***************************************************************************)
(* One iteration of the main loop after its events, at a frame index below *)
(* total_frames - 1 (the index is not counted): the loop goes on and       *)
(* pending' is the batch the next pygame.event.get() returns.              *)
(***************************************************************************)
Frame ==
    /\ pc = "run"
    /\ pending = 0
    /\ ComposeFrame
    /\ pending' \in Batch(timer_active')
    /\ UNCHANGED <<inputVars, planVars, pc, driverVars, outsideVars>>

(***************************************************************************)
(* The driver around the session: parameters, frame index, frame files,    *)
(* progress callback and output assembly.                                  *)
(***************************************************************************)

(* the per-frame percentage reported without its base of 15 *)
ProgressValueNoBase(count, total) == Min((count * 70) \div total, 85)

(* min(15 + int((frame_count / total_frames) * 70), 85) *)
ProgressValue(count, total) == Min(15 + (count * 70) \div total, 85)

(* frame_count % 60 == 0 *)
ProgressDue(count) == count % 60 = 0

(***************************************************************************)
(* The defaults and char_delay_ms, which raises ZeroDivisionError for a    *)
(* typing speed of 0, then progress 5.                                     *)
(***************************************************************************)
Setup ==
    /\ pc = "setup"
    /\ IF typing_speed = 0
       THEN pc' = "failed" /\ UNCHANGED progress
       ELSE pc' = "plan" /\ progress' = Report(<<5>>)
    /\ UNCHANGED <<inputVars, planVars, typingVars, renderVars, loopVars,
                   timer_active, pending, paramVars, frame_count, running,
                   frames, output_file, last_frame, twoRunVars, other_job,
                   elsewhereVars>>
    /\ job' = update_job_progress(progress')

(* event.type == pygame.QUIT in the batch of the current iteration *)
QuitEvent ==
    /\ pc = "run"
    /\ running
    /\ running' = FALSE
    /\ UNCHANGED <<inputVars, planVars, pc, typingVars, renderVars, loopVars,
                   timer_active, pending, paramVars, frame_count, frames,
                   progress, output_file, last_frame, outsideVars>>

(***************************************************************************)
(* One whole iteration of the main loop after its events: compose the      *)
(* frame, save it as frame_<frame_count>.png, report the progress, count   *)
(* the frame and evaluate the loop guard again.                            *)
(***************************************************************************)
Tick ==
    /\ pc = "run"
    /\ pending = 0
    /\ ComposeFrame
    /\ frames' = Append(frames, frame_count)
    /\ last_frame' = [index |-> frame_count, image |-> frame',
                      lines |-> typed_lines,
                      partial |-> current_display_line,
                      loop_state |-> loop_state]
    /\ progress' = IF ProgressDue(frame_count)
                   THEN Report(<<ProgressValue(frame_count, TotalFrames)>>)
                   ELSE progress
    /\ frame_count' = frame_count + 1
    /\ IF LoopGuard(running, frame_count + 1, TotalFrames)
       THEN /\ pc' = "run"
            /\ pending' \in Batch(timer_active')
       ELSE /\ pc' = "exit"
            /\ pending' = 0
    /\ UNCHANGED <<inputVars, planVars, paramVars, running, output_file,
                   twoRunVars, other_job, elsewhereVars>>
    /\ job' = update_job_progress(progress')

(* after the loop: pygame.time.set_timer(TYPE_EVENT, 0) and progress 90 *)
ExitLoop ==
    /\ pc = "exit"
    /\ timer_active' = FALSE
    /\ progress' = Report(<<90>>)
    /\ pc' = "assemble"
    /\ UNCHANGED <<inputVars, planVars, typingVars, renderVars, loopVars,
                   pending, paramVars, frame_count, running, frames,
                   output_file, last_frame, twoRunVars, other_job,
                   elsewhereVars>>
    /\ job' = update_job_progress(progress')

(***************************************************************************)
(* Whether the output is produced: the PNG archive zips whatever frames    *)
(* there are; ffmpeg has no input when no frame was saved and may fail     *)
(* otherwise.                                                              *)
(***************************************************************************)
AssemblyOutcomes(format, saved) ==
    IF format = "png" THEN {TRUE}
    ELSE IF saved = <<>> THEN {FALSE}
    ELSE {TRUE, FALSE}

(* _assemble_video / _create_png_archive, then progress 100 and return *)
Assemble ==
    /\ pc = "assemble"
    /\ \E ok \in AssemblyOutcomes(output_format, frames) :
          IF ok
          THEN /\ output_file' = TRUE
               /\ progress' = Report(<<100>>)
               /\ pc' = "done"
          ELSE /\ pc' = "failed"
               /\ UNCHANGED <<output_file, progress>>
    /\ UNCHANGED <<inputVars, planVars, typingVars, renderVars, loopVars,
                   timer_active, pending, paramVars, frame_count, running,
                   frames, last_frame, twoRunVars, other_job, elsewhereVars>>
    /\ job' = update_job_progress(progress')

Next == PlanTypo \/ StartLoop \/ TypeEvent \/ Frame

Spec == Init /\ [][Next]_vars

(***************************************************************************)
(* The same program when frames keep being rendered and character-timer    *)
(* events keep arriving while the timer runs, started on line buffers      *)
(* without empty lines.                                                    *)
(***************************************************************************)
FrameWithEvents == Frame /\ pending' > 0

InitNoEmptyLine ==
    /\ Init
    /\ \A i \in 1..Len(code_lines) : code_lines[i] # <<>>

(***************************************************************************)
(* The same program on buffers whose first line is long enough for a typo  *)
(* to be planned, with error delays from none to a countdown that outlasts *)
(* the line.                                                               *)
(***************************************************************************)
ErrorDelays == {0, 1, 2, 3}

RecoveryBuffers == {<<LineOfLen(MaxLineLen)>>,
                    <<LineOfLen(MaxLineLen), LineOfLen(1)>>}

InitRecovery ==
    /\ code_lines \in RecoveryBuffers
    /\ max_visible_lines = MaxVisibleLines(MaxFitLines)
    /\ error_delay_frames \in ErrorDelays
    /\ pc = "plan"
    /\ SessionStart
    /\ duration = MaxDuration
    /\ typing_speed = TYPING_WPM
    /\ output_format = "mp4"
    /\ progress_callback = FALSE
    /\ DriverStart
    /\ NothingOutside

RecoverySpec == InitRecovery /\ [][Next]_vars

FairSpec ==
    /\ InitNoEmptyLine
    /\ [][Next]_vars
    /\ WF_vars(PlanTypo)
    /\ WF_vars(StartLoop)
    /\ WF_vars(TypeEvent)
    /\ WF_vars(Frame)
    /\ SF_vars(FrameWithEvents)

(***************************************************************************)
(* A whole call of generate_typing_effect, with any parameters (in range   *)
(* or not), on short line buffers: the frame index is counted, the frames  *)
(* are saved, progress is reported and the output is assembled.            *)
(***************************************************************************)
DriverBuffers == SeqsUpTo({LineOfLen(0), LineOfLen(1)}, 1)

Durations == {-1, 0, 1, MaxDuration}

TypingSpeeds == {-1, 0, TYPING_WPM}

OutputFormats == {"mp4", "png"}

InitDriver ==
    /\ code_lines \in DriverBuffers
    /\ max_visible_lines = MaxVisibleLines(1)
    /\ error_delay_frames = 0
    /\ pc = "setup"
    /\ SessionStart
    /\ duration \in Durations
    /\ typing_speed \in TypingSpeeds
    /\ output_format \in OutputFormats
    /\ progress_callback \in BOOLEAN
    /\ DriverStart
    /\ NothingOutside

NextDriver ==
    \/ Setup
    \/ PlanTypo
    \/ StartLoop
    \/ TypeEvent
    \/ QuitEvent
    \/ Tick
    \/ ExitLoop
    \/ Assemble

DriverSpec == InitDriver /\ [][NextDriver]_vars

(***************************************************************************)
(* The same call with a frame sink that can fail: pygame.image.save raises *)
(* after the frame was composed, and the exception leaves the loop through *)
(* the except branch of generate_typing_effect, which records the failure  *)
(* and raises again.                                                       *)
(***************************************************************************)
SaveFrameFails ==
    /\ pc = "run"
    /\ pending = 0
    /\ ComposeFrame
    /\ pc' = "failed"
    /\ UNCHANGED <<inputVars, planVars, pending, paramVars, frame_count,
                   running, frames, progress, output_file, last_frame,
                   outsideVars>>

NextExit == NextDriver \/ SaveFrameFails

ExitSpec == InitDriver /\ [][NextExit]_vars

(***************************************************************************)
(* Two runs of the same call, one after the other: RunAgain keeps what the *)
(* first run last handed to the sink and starts the call again with the    *)
(* same inputs and the same typo plan (the same random seed).              *)
(***************************************************************************)
RunAgain ==
    /\ run_no = 1
    /\ last_frame # NoLastFrame
    /\ run_no' = 2
    /\ first_run' = last_frame
    /\ pc' = "plan"
    /\ current_line' = 0
    /\ current_char' = 0
    /\ typed_lines' = <<>>
    /\ current_display_line' = <<>>
    /\ typing_state_inner' = "normal"
    /\ typo_buffer' = <<>>
    /\ typo_correct_char' = ""
    /\ typo_delay_counter' = 0
    /\ backspace_count' = 0
    /\ correction_index' = 0
    /\ typo_error_pos' = 0
    /\ scroll_offset' = 0
    /\ cursor_visible' = TRUE
    /\ cursor_blink_timer' = 0
    /\ pause_timer' = 0
    /\ fade_timer' = 0
    /\ loop_state' = "typing"
    /\ timer_active' = FALSE
    /\ pending' = 0
    /\ frame' = NoFrame
    /\ frame_count' = 0
    /\ running' = TRUE
    /\ frames' = <<>>
    /\ progress' = <<>>
    /\ output_file' = FALSE
    /\ last_frame' = NoLastFrame
    /\ UNCHANGED <<inputVars, planVars, paramVars, other_job, job,
                   elsewhereVars>>

TwoRunDurations == {1, 2}

InitTwoRuns ==
    /\ code_lines \in DriverBuffers
    /\ max_visible_lines = MaxVisibleLines(1)
    /\ error_delay_frames = 0
    /\ pc = "setup"
    /\ SessionStart
    /\ duration \in TwoRunDurations
    /\ typing_speed = TYPING_WPM
    /\ output_format = "png"
    /\ progress_callback = FALSE
    /\ DriverStart
    /\ NothingOutside

NextTwoRuns == NextDriver \/ RunAgain

TwoRunSpec == InitTwoRuns /\ [][NextTwoRuns]_vars

(***************************************************************************)
(* A second typing job in the same process, as far as it acts on what the  *)
(* jobs share.  Every job uses the event id TYPE_EVENT = USEREVENT + 1,    *)
(* and pygame keeps one timer per event id for the whole process, so the   *)
(* other job's set_timer calls act on timer_active: at its loop entry,     *)
(* when it has typed its last line, on its restart and after its loop.     *)
(***************************************************************************)
OtherStartLoop ==
    /\ other_job = "ready"
    /\ other_job' = "typing"
    /\ timer_active' = TRUE
    /\ UNCHANGED <<inputVars, planVars, pc, typingVars, renderVars, loopVars,
                   pending, driverVars, twoRunVars, job, elsewhereVars>>

OtherFinishTyping ==
    /\ other_job = "typing"
    /\ other_job' = "paused"
    /\ timer_active' = FALSE
    /\ UNCHANGED <<inputVars, planVars, pc, typingVars, renderVars, loopVars,
                   pending, driverVars, twoRunVars, job, elsewhereVars>>

OtherRestart ==
    /\ other_job = "paused"
    /\ other_job' = "typing"
    /\ timer_active' = TRUE
    /\ UNCHANGED <<inputVars, planVars, pc, typingVars, renderVars, loopVars,
                   pending, driverVars, twoRunVars, job, elsewhereVars>>

OtherExitLoop ==
    /\ other_job \in {"typing", "paused"}
    /\ other_job' = "done"
    /\ timer_active' = FALSE
    /\ UNCHANGED <<inputVars, planVars, pc, typingVars, renderVars, loopVars,
                   pending, driverVars, twoRunVars, job, elsewhereVars>>

(* line buffers whose lines are too short for a planned typo *)
ShortLineBuffers == SeqsUpTo({LineOfLen(1)}, MaxLines)

InitShared ==
    /\ code_lines \in ShortLineBuffers
    /\ \E fit \in 0..MaxFitLines : max_visible_lines = MaxVisibleLines(fit)
    /\ error_delay_frames \in 0..MaxErrorDelayFrames
    /\ pc = "plan"
    /\ SessionStart
    /\ duration = MaxDuration
    /\ typing_speed = TYPING_WPM
    /\ output_format = "mp4"
    /\ progress_callback = FALSE
    /\ DriverStart
    /\ run_no = 1
    /\ first_run = NoLastFrame
    /\ other_job = "ready"
    /\ job = NoJob
    /\ NothingElsewhere

NextShared ==
    \/ PlanTypo
    \/ StartLoop
    \/ TypeEvent
    \/ Frame
    \/ OtherStartLoop
    \/ OtherFinishTyping
    \/ OtherRestart
    \/ OtherExitLoop

(***************************************************************************)
(* Both jobs running, with the fairness of FairSpec for this job: its      *)
(* frames keep being rendered and events keep arriving while the timer     *)
(* runs.  Nothing is assumed of the other job.                             *)
(***************************************************************************)
SharedFairSpec ==
    /\ InitShared
    /\ [][NextShared]_vars
    /\ WF_vars(PlanTypo)
    /\ WF_vars(StartLoop)
    /\ WF_vars(TypeEvent)
    /\ WF_vars(Frame)
    /\ SF_vars(FrameWithEvents)

(***************************************************************************)
(* The web job around one generation.  POST /api/generate/typing validates *)
(* the request, stores the job entry with status queued and progress 0 and *)
(* starts the thread generate_video, which runs generate_typing_effect     *)
(* with update_job_progress as its callback.  The thread discards the      *)
(* value the generation returns; when the generation raises it calls       *)
(* update_job_status(job_id, JobStatus.FAILED, ...).                       *)
(***************************************************************************)
ValidRequest ==
    /\ ~(duration < 10 \/ duration > 600)
    /\ output_format \in {"mp4", "png", "gif"}
    /\ 10 <= typing_speed /\ typing_speed <= 300

(***************************************************************************)
(* The text file of the request, handled after the basic validation: a     *)
(* file that passes _validate_text_file is saved to the temp directory by  *)
(* _save_uploaded_file, and only then is the request refused when it also  *)
(* carries custom_text.                                                    *)
(***************************************************************************)
SaveUploadedFile(up) ==
    IF up.text_file = "valid"
    THEN [up EXCEPT !.uploaded_file_path = TRUE, !.temp_file = TRUE]
    ELSE up

(* finally: if uploaded_file_path and Path(...).exists(): unlink() *)
CleanUpUploadedFile(up) ==
    IF up.uploaded_file_path /\ up.temp_file
    THEN [up EXCEPT !.temp_file = FALSE]
    ELSE up

PostTyping ==
    /\ pc = "request"
    /\ IF ~ValidRequest \/ upload.text_file = "invalid"
       THEN /\ pc' = "rejected"
            /\ UNCHANGED <<job, upload>>
       ELSE /\ upload' = SaveUploadedFile(upload)
            /\ IF upload.custom_text /\ upload'.uploaded_file_path
               THEN /\ pc' = "rejected"
                    /\ UNCHANGED job
               ELSE /\ job' = [status |-> "queued", progress |-> 0,
                               output_file |-> FALSE]
                    /\ pc' = "setup"
    /\ UNCHANGED <<inputVars, planVars, typingVars, renderVars, loopVars,
                   timer_active, pending, driverVars, twoRunVars, other_job,
                   rainVars, rateVars, supportVars, retry, shutdown, link, batch>>

(* update_job_status(job_id, status): the only call passes FAILED *)
update_job_status(status) ==
    IF job.status # "none"
    THEN IF status = "completed"
         THEN [job EXCEPT !.status = status, !.progress = 100]
         ELSE [job EXCEPT !.status = status]
    ELSE job

(* generate_typing_effect returned: the thread ends, its result unused *)
ThreadReturns ==
    /\ pc = "done"
    /\ job.status # "none"
    /\ pc' = "returned"
    /\ upload' = CleanUpUploadedFile(upload)
    /\ UNCHANGED <<inputVars, planVars, typingVars, renderVars, loopVars,
                   timer_active, pending, driverVars, twoRunVars, other_job,
                   job, rainVars, rateVars, supportVars, retry, shutdown, link, batch>>

(* generate_typing_effect raised: except Exception in the thread *)
ThreadFails ==
    /\ pc = "failed"
    /\ job.status # "none"
    /\ job' = update_job_status("failed")
    /\ pc' = "returned"
    /\ upload' = CleanUpUploadedFile(upload)
    /\ UNCHANGED <<inputVars, planVars, typingVars, renderVars, loopVars,
                   timer_active, pending, driverVars, twoRunVars, other_job,
                   rainVars, rateVars, supportVars, retry, shutdown, link, batch>>

(* GET /api/jobs/<job_id> reports a download_url *)
DownloadUrlReported == job.status = "completed" /\ job.output_file

JobDurations == {1, 10}

(* request.files['text_file']: absent, accepted or refused by validation *)
TextFiles == {"none", "valid", "invalid"}

JobTypingSpeeds == {0, TYPING_WPM}

InitJob ==
    /\ code_lines \in DriverBuffers
    /\ max_visible_lines = MaxVisibleLines(1)
    /\ error_delay_frames = 0
    /\ pc = "request"
    /\ SessionStart
    /\ duration \in JobDurations
    /\ typing_speed \in JobTypingSpeeds
    /\ output_format \in OutputFormats
    /\ progress_callback = TRUE
    /\ DriverStart
    /\ run_no = 1
    /\ first_run = NoLastFrame
    /\ other_job = "none"
    /\ job = NoJob
    /\ NoRain
    /\ NoRateLimiter
    /\ NoSupport
    /\ upload \in [text_file : TextFiles, custom_text : BOOLEAN,
                    uploaded_file_path : {FALSE}, temp_file : {FALSE}]
    /\ retry = NoRetry
    /\ shutdown = NoShutdown
    /\ link = NoLink
    /\ batch = NoBatch

NextJob == PostTyping \/ NextDriver \/ ThreadReturns \/ ThreadFails

JobSpec == InitJob /\ [][NextJob]_vars

(* the request handler and the thread run to their end *)
JobFairSpec == JobSpec /\ WF_vars(NextJob)

(***************************************************************************)
(* No typing job: the variables of generate_typing_effect at rest.         *)
(***************************************************************************)
typingJobVars == <<inputVars, planVars, pc, typingVars, renderVars, loopVars,
                   timer_active, pending, driverVars, twoRunVars, other_job,
                   job>>

NoTypingJob ==
    /\ code_lines = <<>>
    /\ max_visible_lines = 1
    /\ error_delay_frames = 0
    /\ pc = "none"
    /\ SessionStart
    /\ duration = 0
    /\ typing_speed = TYPING_WPM
    /\ output_format = "mp4"
    /\ progress_callback = FALSE
    /\ DriverStart
    /\ run_no = 1
    /\ first_run = NoLastFrame
    /\ other_job = "none"
    /\ job = NoJob

(***************************************************************************)
(* The rain engine, as section 4.2 of the specification describes it (the  *)
(* repository's sources do not contain it).  A column is a record          *)
(* [font_tier, head_position, glyphs]; font_tier is the pixel height of    *)
(* one row of the column, glyphs the list of its entities                  *)
(* [character, row_position].  Positions are integers, in the unit of      *)
(* speed.  The head restarts at random(-20, 0); the model draws it from    *)
(* HeadStarts.                                                             *)
(***************************************************************************)
ColumnIds == {1, 2}

FontTiers == {1, 2}

SymbolSet == {"0", "1"}

HeadStarts == {-1, 0}

Speeds == {1, 2}

ResetVariances == {0, 1}

PixelRow(row, tier) == row * tier

(* an entity is dropped when its pixel row reaches the bound *)
PastBottomInclusive(row, tier, variance) ==
    PixelRow(row, tier) >= ViewportHeight + variance

(* the pixel row exceeds viewport_height + reset_variance *)
PastBottom(row, tier, variance) ==
    PixelRow(row, tier) > ViewportHeight + variance

(***************************************************************************)
(* One tick of one column: spawn at the head (spawn is the outcome of the  *)
(* draw against p_spawn, glyph the random symbol), advance the head,       *)
(* advance every entity, drop the entities past the bottom, and reset the  *)
(* column when its head is past the bottom (new_head is the draw of        *)
(* random(-20, 0)).                                                        *)
(***************************************************************************)
ColumnTick(col, spawn, glyph, new_head) ==
    LET spawned == IF spawn
                   THEN Append(col.glyphs,
                               [character |-> glyph,
                                row_position |-> col.head_position])
                   ELSE col.glyphs
        head == col.head_position + speed
        moved == [i \in 1..Len(spawned) |->
                    [spawned[i] EXCEPT !.row_position = @ + speed]]
        Stays(g) == ~PastBottom(g.row_position, col.font_tier,
                                reset_variance_px)
    IN  IF PastBottom(head, col.font_tier, reset_variance_px)
        THEN [col EXCEPT !.head_position = new_head, !.glyphs = <<>>]
        ELSE [col EXCEPT !.head_position = head,
                         !.glyphs = SelectSeq(moved, Stays)]

(* what one tick can make of a column, over its random draws *)
ColumnOutcomes(col) ==
    {ColumnTick(col, spawn, glyph, new_head) :
        spawn \in BOOLEAN, glyph \in SymbolSet, new_head \in HeadStarts}

(* one tick of the engine: every column, each with its own random draws *)
RainTick ==
    /\ columns # <<>>
    /\ columns' \in
          {next \in [DOMAIN columns ->
                        UNION {ColumnOutcomes(columns[c]) :
                                  c \in DOMAIN columns}] :
              \A c \in DOMAIN columns : next[c] \in ColumnOutcomes(columns[c])}
    /\ UNCHANGED <<speed, reset_variance_px, rateVars, serviceVars,
                   typingJobVars, supportVars>>

InitRain ==
    /\ columns \in [ColumnIds -> [font_tier : FontTiers,
                                  head_position : HeadStarts,
                                  glyphs : {<<>>}]]
    /\ speed \in Speeds
    /\ reset_variance_px \in ResetVariances
    /\ NoRateLimiter
    /\ NoServices
    /\ NoSupport
    /\ NoTypingJob

NextRain == RainTick

RainSpec == InitRain /\ [][NextRain]_vars

(***************************************************************************)
(* The graceful shutdown of the server around a typing job.  A signal      *)
(* starts _perform_shutdown in a thread: it saves the job state, waits in  *)
(* _wait_for_jobs_completion while the job tracker holds a job with status *)
(* running and less than max_shutdown_wait seconds have passed, runs the   *)
(* callbacks and the final cleanup and ends the process with os._exit(0).  *)
(* restored_running says that job_state.json, loaded at start-up, held a   *)
(* job with status running; elapsed is time.time() - start_time.           *)
(***************************************************************************)
GenerationExecuting ==
    job.status # "none" /\ pc \notin {"request", "rejected", "returned"}

(* the jobs _wait_for_jobs_completion waits for *)
RunningJobs == job.status = "running" \/ shutdown.restored_running

(* SIGTERM or SIGINT: _signal_handler, then _save_job_state *)
ShutdownSignal ==
    /\ ~shutdown.shutdown_requested
    /\ shutdown' = [shutdown EXCEPT !.shutdown_requested = TRUE,
                                    !.phase = "waiting"]
    /\ UNCHANGED <<typingJobVars, supportVars, rainVars, rateVars, upload,
                   retry, link, batch>>

(* one evaluation of the loop of _wait_for_jobs_completion *)
WaitForJobs ==
    /\ shutdown.phase = "waiting"
    /\ shutdown' =
          IF shutdown.elapsed < shutdown.max_shutdown_wait /\ RunningJobs
          THEN [shutdown EXCEPT !.elapsed = @ + SHUTDOWN_POLL_SECONDS]
          ELSE [shutdown EXCEPT !.phase = "cleanup"]
    /\ UNCHANGED <<typingJobVars, supportVars, rainVars, rateVars, upload,
                   retry, link, batch>>

(***************************************************************************)
(* The callbacks, _final_cleanup and os._exit(0).  The cleanup removes the *)
(* files of the temp directory older than an hour, which a file left by a  *)
(* refused request may or may not be.                                      *)
(***************************************************************************)
ProcessExit ==
    /\ shutdown.phase = "cleanup"
    /\ shutdown' = [shutdown EXCEPT !.phase = "exited"]
    /\ \E old \in BOOLEAN :
          upload' = IF old /\ pc = "rejected"
                    THEN [upload EXCEPT !.temp_file = FALSE]
                    ELSE upload
    /\ UNCHANGED <<typingJobVars, supportVars, rainVars, rateVars, retry,
                   link, batch>>

ShutdownWaits == {0, MaxShutdownWait}

InitShutdown ==
    /\ code_lines \in DriverBuffers
    /\ max_visible_lines = MaxVisibleLines(1)
    /\ error_delay_frames = 0
    /\ pc = "request"
    /\ SessionStart
    /\ duration = 10
    /\ typing_speed = TYPING_WPM
    /\ output_format \in OutputFormats
    /\ progress_callback = TRUE
    /\ DriverStart
    /\ run_no = 1
    /\ first_run = NoLastFrame
    /\ other_job = "none"
    /\ job = NoJob
    /\ NoRain
    /\ NoRateLimiter
    /\ NoSupport
    /\ upload \in [text_file : {"none", "valid"}, custom_text : BOOLEAN,
                    uploaded_file_path : {FALSE}, temp_file : {FALSE}]
    /\ retry = NoRetry
    /\ shutdown \in [max_shutdown_wait : ShutdownWaits,
                      restored_running : BOOLEAN,
                      shutdown_requested : {FALSE}, phase : {"serving"},
                      elapsed : {0}]
    /\ link = NoLink
    /\ batch = NoBatch

(* the threads of the process run until os._exit *)
NextShutdown ==
    \/ shutdown.phase # "exited" /\ NextJob
    \/ ShutdownSignal
    \/ WaitForJobs
    \/ ProcessExit

ShutdownSpec == InitShutdown /\ [][NextShutdown]_vars

(***************************************************************************)
(* CollaborationManager.access_shareable_link on one link, stored as a     *)
(* JSON file.  An access loads the file into an object of its own          *)
(* (LoadLink), then checks expiry, access count and password on that       *)
(* object, increments its access_count and writes it back (FinishAccess);  *)
(* no lock is held, so other accesses may run between the two.  granted    *)
(* counts the accesses that returned the configuration, refused the        *)
(* others.                                                                 *)
(***************************************************************************)
NoAccess == [password |-> "", access_count |-> -1]

Passwords == {"none", "right", "wrong"}

(* shareable_link = self._load_shareable_link(link_id) *)
LoadLink(t, password) ==
    /\ link.stored
    /\ link.accesses[t] = NoAccess
    /\ link.started < MaxRequests
    /\ link' = [link EXCEPT
                   !.accesses[t] = [password |-> password,
                                    access_count |-> link.access_count],
                   !.started = @ + 1]
    /\ UNCHANGED <<typingJobVars, supportVars, rainVars, rateVars, upload, retry,
                   shutdown, batch>>

(* the checks of an access on the object it loaded *)
AccessRefused(access) ==
    \/ link.expires_at /\ link.expired
    \/ link.max_access_count # 0
          /\ access.access_count >= link.max_access_count
    \/ link.password_hash /\ access.password # "right"

FinishAccess(t) ==
    /\ link.accesses[t] # NoAccess
    /\ link' =
          IF AccessRefused(link.accesses[t])
          THEN [link EXCEPT !.accesses[t] = NoAccess, !.refused = @ + 1]
          ELSE [link EXCEPT
                   !.accesses[t] = NoAccess,
                   !.access_count = link.accesses[t].access_count + 1,
                   !.granted = @ + 1]
    /\ UNCHANGED <<typingJobVars, supportVars, rainVars, rateVars, upload, retry,
                   shutdown, batch>>

(* datetime.now() passes expires_at *)
LinkExpires ==
    /\ link.stored
    /\ link.expires_at
    /\ ~link.expired
    /\ link' = [link EXCEPT !.expired = TRUE]
    /\ UNCHANGED <<typingJobVars, supportVars, rainVars, rateVars, upload, retry,
                   shutdown, batch>>

(* create_shareable_link has stored the link *)
InitLink ==
    /\ link \in [stored : {TRUE}, max_access_count : 0..MaxAccessCount,
                  access_count : {0}, expires_at : BOOLEAN,
                  expired : {FALSE}, password_hash : BOOLEAN,
                  accesses : {[t \in Threads |-> NoAccess]},
                  started : {0}, granted : {0}, refused : {0}]
    /\ upload = NoUpload
    /\ retry = NoRetry
    /\ shutdown = NoShutdown
    /\ batch = NoBatch
    /\ NoRain
    /\ NoRateLimiter
    /\ NoSupport
    /\ NoTypingJob

NextLink ==
    \/ \E t \in Threads, password \in Passwords : LoadLink(t, password)
    \/ \E t \in Threads : FinishAccess(t)
    \/ LinkExpires

LinkSpec == InitLink /\ [][NextLink]_vars

(***************************************************************************)
(* BatchProcessor: one batch of active_batches.  stored says that the      *)
(* batch is in active_batches, status is BatchJob.status, items holds the  *)
(* BatchItemStatus of each item, completed_items and failed_items are the  *)
(* counters of those names.  thread is the position of the _process_batch  *)
(* thread (top: before the first locked block of the loop, check: before   *)
(* the second).  next_item and running_items are the local variables of    *)
(* _process_batch that the process_item closures share with it: next_item  *)
(* is an item's index from 1, or 0 for None.  workers[i] is the position   *)
(* of the process_item thread started for item i.  op and returned record  *)
(* the last control call and its return value, ops counts the control      *)
(* calls.  The control methods run under batch_lock; the closures read     *)
(* next_item and batch_job.status outside it.                              *)
(***************************************************************************)
MaxItems == 2

MaxBatchOps == 4

ConcurrentLimits == {1, 2}

(* the part of the record that is the batch itself *)
BatchJob(b) == [stored |-> b.stored, status |-> b.status,
                started_at |-> b.started_at, completed_at |-> b.completed_at,
                items |-> b.items, completed_items |-> b.completed_items,
                failed_items |-> b.failed_items]

(* a status guard that lets every status through *)
AnyStatus(status) == TRUE

(* batch_job.status != BatchStatus.PENDING refuses *)
CanStart(status) == status = "pending"

(* batch_job.status == BatchStatus.RUNNING *)
CanPause(status) == status = "running"

(* batch_job.status == BatchStatus.PAUSED *)
CanResume(status) == status = "paused"

(* batch_job.status in [RUNNING, PAUSED] *)
CanCancel(status) == status \in {"running", "paused"}

(* batch_job.status in [COMPLETED, FAILED, CANCELLED] *)
CanDelete(status) == status \in {"completed", "failed", "cancelled"}

(* the record after a control call op that returned returned *)
Called(b, op, returned) ==
    [b EXCEPT !.op = op, !.returned = returned, !.ops = @ + 1]

(* create_batch(name, description, items, concurrent_limit=...) *)
CreateBatch(items, concurrent_limit) ==
    /\ batch = NoBatch
    /\ batch' = [batch EXCEPT !.stored = TRUE, !.status = "pending",
                              !.items = [i \in 1..items |-> "pending"],
                              !.workers = [i \in 1..items |-> "none"],
                              !.concurrent_limit = concurrent_limit]
    /\ UNCHANGED <<typingJobVars, supportVars, rainVars, rateVars, upload, retry,
                   shutdown, link>>

StartBatch ==
    /\ batch.ops < MaxBatchOps
    /\ batch' = IF batch.stored /\ CanStart(batch.status)
                THEN Called([batch EXCEPT !.status = "running",
                                          !.started_at = TRUE,
                                          !.thread = "top"], "start", TRUE)
                ELSE Called(batch, "start", FALSE)
    /\ UNCHANGED <<typingJobVars, supportVars, rainVars, rateVars, upload, retry,
                   shutdown, link>>

PauseBatch ==
    /\ batch.ops < MaxBatchOps
    /\ batch' = IF batch.stored /\ CanPause(batch.status)
                THEN Called([batch EXCEPT !.status = "paused"], "pause", TRUE)
                ELSE Called(batch, "pause", FALSE)
    /\ UNCHANGED <<typingJobVars, supportVars, rainVars, rateVars, upload, retry,
                   shutdown, link>>

ResumeBatch ==
    /\ batch.ops < MaxBatchOps
    /\ batch' = IF batch.stored /\ CanResume(batch.status)
                THEN Called([batch EXCEPT !.status = "running"],
                            "resume", TRUE)
                ELSE Called(batch, "resume", FALSE)
    /\ UNCHANGED <<typingJobVars, supportVars, rainVars, rateVars, upload, retry,
                   shutdown, link>>

CancelBatch ==
    /\ batch.ops < MaxBatchOps
    /\ batch' = IF batch.stored /\ CanCancel(batch.status)
                THEN Called([batch EXCEPT !.status = "cancelled",
                                          !.completed_at = TRUE],
                            "cancel", TRUE)
                ELSE Called(batch, "cancel", FALSE)
    /\ UNCHANGED <<typingJobVars, supportVars, rainVars, rateVars, upload, retry,
                   shutdown, link>>

(* del self.active_batches[batch_id] and _delete_batch_storage *)
DeleteBatch ==
    /\ batch.ops < MaxBatchOps
    /\ batch' = IF batch.stored /\ CanDelete(batch.status)
                THEN Called([batch EXCEPT !.stored = FALSE], "delete", TRUE)
                ELSE Called(batch, "delete", FALSE)
    /\ UNCHANGED <<typingJobVars, supportVars, rainVars, rateVars, upload, retry,
                   shutdown, link>>

(* the items that count as not yet processed *)
Unprocessed(b) == {i \in DOMAIN b.items : b.items[i] \in {"pending", "running"}}

PendingItems(b) == {i \in DOMAIN b.items : b.items[i] = "pending"}

(* the first pending item of the list *)
FirstPending(b) == CHOOSE i \in PendingItems(b) : \A j \in PendingItems(b) : i <= j

(* _process_batch, first locked block of one loop iteration: leave the    *)
(* loop when the batch is gone, cancelled or completed; else, when the    *)
(* batch runs below its concurrent limit, next_item = None, then the      *)
(* first pending item if there is one, which is marked running, entered   *)
(* in running_items and given its process_item thread                     *)
ProcessTop ==
    /\ batch.thread = "top"
    /\ batch' =
         IF ~batch.stored \/ batch.status \in {"cancelled", "completed"}
         THEN [batch EXCEPT !.thread = "ended"]
         ELSE IF /\ batch.status = "running"
                 /\ Cardinality(batch.running_items) < batch.concurrent_limit
              THEN IF PendingItems(batch) # {}
                   THEN LET i == FirstPending(batch)
                        IN  [batch EXCEPT !.items[i] = "running",
                                          !.next_item = i,
                                          !.running_items = @ \cup {i},
                                          !.workers[i] = "loop",
                                          !.thread = "check"]
                   ELSE [batch EXCEPT !.next_item = 0, !.thread = "check"]
              ELSE [batch EXCEPT !.thread = "check"]
    /\ UNCHANGED <<typingJobVars, supportVars, rainVars, rateVars, upload,
                   retry, shutdown, link>>

(* _process_batch, second locked block: the batch is completed when no    *)
(* item is pending, queued or running                                     *)
ProcessCheck ==
    /\ batch.thread = "check"
    /\ batch' =
         IF batch.stored /\ Unprocessed(batch) = {}
         THEN [batch EXCEPT !.status = "completed", !.completed_at = TRUE,
                            !.thread = "ended"]
         ELSE [batch EXCEPT !.thread = "top"]
    /\ UNCHANGED <<typingJobVars, supportVars, rainVars, rateVars, upload,
                   retry, shutdown, link>>

(* the except branch of _process_batch: an exception in the loop (the     *)
(* item thread cannot be started) marks the batch failed                  *)
ProcessFails ==
    /\ batch.thread = "top"
    /\ batch.stored
    /\ batch.status = "running"
    /\ Cardinality(batch.running_items) < batch.concurrent_limit
    /\ PendingItems(batch) # {}
    /\ batch' = [batch EXCEPT !.status = "failed", !.completed_at = TRUE,
                              !.thread = "ended"]
    /\ UNCHANGED <<typingJobVars, supportVars, rainVars, rateVars, upload,
                   retry, shutdown, link>>

(* _handle_item_completion(batch_id, item_id, success): nothing for a     *)
(* batch that is gone, else the item's status and the batch's counter,    *)
(* whatever the item's status was                                         *)
HandleItemCompletion(b, i, success) ==
    IF ~b.stored THEN b
    ELSE IF success
    THEN [b EXCEPT !.items[i] = "completed", !.completed_items = @ + 1]
    ELSE [b EXCEPT !.items[i] = "failed", !.failed_items = @ + 1]

(* process_item, in its loop of 101 progress steps: a cancelled batch     *)
(* breaks the loop; _update_item_progress(batch_id, next_item.item_id, i) *)
(* raises AttributeError when next_item is None; else the loop runs out   *)
WorkerLoop(w) ==
    /\ batch.workers[w] = "loop"
    /\ batch' = IF batch.status = "cancelled"
                THEN [batch EXCEPT !.workers[w] = "after"]
                ELSE IF batch.next_item = 0
                THEN [batch EXCEPT !.workers[w] = "except"]
                ELSE [batch EXCEPT !.workers[w] = "after"]
    /\ UNCHANGED <<typingJobVars, supportVars, rainVars, rateVars, upload,
                   retry, shutdown, link>>

(* process_item after the loop: if batch_job.status != CANCELLED *)
WorkerTests(w) ==
    /\ batch.workers[w] = "after"
    /\ batch' = IF batch.status # "cancelled"
                THEN [batch EXCEPT !.workers[w] = "complete"]
                ELSE [batch EXCEPT !.workers[w] = "finally"]
    /\ UNCHANGED <<typingJobVars, supportVars, rainVars, rateVars, upload,
                   retry, shutdown, link>>

(* _handle_item_completion(batch_id, next_item.item_id, True, ...) *)
WorkerCompletes(w) ==
    /\ batch.workers[w] = "complete"
    /\ batch' = IF batch.next_item = 0
                THEN [batch EXCEPT !.workers[w] = "except"]
                ELSE [HandleItemCompletion(batch, batch.next_item, TRUE)
                         EXCEPT !.workers[w] = "finally"]
    /\ UNCHANGED <<typingJobVars, supportVars, rainVars, rateVars, upload,
                   retry, shutdown, link>>

(* except Exception: _handle_item_completion(batch_id,                    *)
(* next_item.item_id, False, ...), which raises again for None            *)
WorkerExcept(w) ==
    /\ batch.workers[w] = "except"
    /\ batch' = IF batch.next_item = 0
                THEN [batch EXCEPT !.workers[w] = "finally"]
                ELSE [HandleItemCompletion(batch, batch.next_item, FALSE)
                         EXCEPT !.workers[w] = "finally"]
    /\ UNCHANGED <<typingJobVars, supportVars, rainVars, rateVars, upload,
                   retry, shutdown, link>>

(* finally: if next_item.item_id in running_items: del ...; the thread    *)
(* ends, with AttributeError for None                                     *)
WorkerFinally(w) ==
    /\ batch.workers[w] = "finally"
    /\ batch' = IF batch.next_item = 0
                THEN [batch EXCEPT !.workers[w] = "died"]
                ELSE [batch EXCEPT
                         !.running_items = @ \ {batch.next_item},
                         !.workers[w] = "ended"]
    /\ UNCHANGED <<typingJobVars, supportVars, rainVars, rateVars, upload,
                   retry, shutdown, link>>

InitBatch ==
    /\ batch = NoBatch
    /\ upload = NoUpload
    /\ retry = NoRetry
    /\ shutdown = NoShutdown
    /\ link = NoLink
    /\ NoRain
    /\ NoRateLimiter
    /\ NoSupport
    /\ NoTypingJob

NextBatch ==
    \/ \E items \in 0..MaxItems, concurrent_limit \in ConcurrentLimits :
          CreateBatch(items, concurrent_limit)
    \/ StartBatch
    \/ PauseBatch
    \/ ResumeBatch
    \/ CancelBatch
    \/ DeleteBatch
    \/ ProcessTop
    \/ ProcessCheck
    \/ ProcessFails
    \/ \E w \in DOMAIN batch.workers :
          \/ WorkerLoop(w)
          \/ WorkerTests(w)
          \/ WorkerCompletes(w)
          \/ WorkerExcept(w)
          \/ WorkerFinally(w)

BatchSpec == InitBatch /\ [][NextBatch]_vars

(***************************************************************************)
(* A batch that is created and started and then left alone: no pause, no   *)
(* cancel, no delete, every thread that was started can be started, and    *)
(* every thread keeps running.                                             *)
(***************************************************************************)
NextBatchRun ==
    \/ \E items \in 0..MaxItems, concurrent_limit \in ConcurrentLimits :
          CreateBatch(items, concurrent_limit)
    \/ StartBatch
    \/ ProcessTop
    \/ ProcessCheck
    \/ \E w \in DOMAIN batch.workers :
          \/ WorkerLoop(w)
          \/ WorkerTests(w)
          \/ WorkerCompletes(w)
          \/ WorkerExcept(w)
          \/ WorkerFinally(w)

BatchRunFairSpec ==
    /\ InitBatch
    /\ [][NextBatchRun]_vars
    /\ WF_vars(ProcessTop)
    /\ WF_vars(ProcessCheck)
    /\ \A w \in 1..MaxItems :
          WF_vars(w \in DOMAIN batch.workers
                  /\ (\/ WorkerLoop(w)
                      \/ WorkerTests(w)
                      \/ WorkerCompletes(w)
                      \/ WorkerExcept(w)
                      \/ WorkerFinally(w)))

(***************************************************************************)
(* ResourceMonitor and JobQueueManager.  cpu, memory and disk are the      *)
(* last readings in percent, current_status the level _update_status       *)
(* derived from them.  queued is the size of job_queue, running_jobs the   *)
(* size of the dict of that name, processor the position of the            *)
(* _process_queue thread in its loop: check (the capacity test), get       *)
(* (job_queue.get) and start (_start_job).                                 *)
(***************************************************************************)
Readings == {0, 70, 80, 85, 90, 95}

Priorities == {"LOW", "NORMAL", "HIGH"}

(* the order of the strings "critical" < "healthy" < "high" < "moderate"   *)
(* that key=lambda x: x.value compares by                                  *)
ValueOrder(status) ==
    CASE status = "critical" -> 0
      [] status = "healthy" -> 1
      [] status = "high" -> 2
      [] status = "moderate" -> 3

(* max(status, level, key=lambda x: x.value): the first of the largest *)
MaxByValue(status, level) ==
    IF ValueOrder(level) > ValueOrder(status) THEN level ELSE status

(* one of the three if / elif / elif blocks of _update_status *)
CheckReading(status, reading, moderate, high, critical) ==
    IF reading >= critical THEN "critical"
    ELSE IF reading >= high THEN MaxByValue(status, "high")
    ELSE IF reading >= moderate THEN MaxByValue(status, "moderate")
    ELSE status

UpdateStatus(cpu, memory, disk) ==
    LET s1 == CheckReading("healthy", cpu, cpu_moderate, cpu_high,
                           cpu_critical)
        s2 == CheckReading(s1, memory, memory_moderate, memory_high,
                           memory_critical)
    IN  CheckReading(s2, disk, disk_moderate, disk_high, disk_critical)

(* _get_max_concurrent for a status *)
MaxConcurrentFor(status) ==
    CASE status = "critical" -> 0
      [] status = "high" -> Max(1, MAX_CONCURRENT_JOBS \div 2)
      [] status = "moderate" -> Max(1, (MAX_CONCURRENT_JOBS * 3) \div 4)
      [] status = "healthy" -> MAX_CONCURRENT_JOBS

(* one round of _monitor_loop: _update_metrics, then _update_status *)
MonitorUpdates(cpu, memory, disk) ==
    /\ resources' = [resources EXCEPT
                        !.cpu = cpu, !.memory = memory, !.disk = disk,
                        !.current_status = UpdateStatus(cpu, memory, disk),
                        !.updated = TRUE]
    /\ UNCHANGED <<typingJobVars, rainVars, rateVars, serviceVars, preview>>

(* queue_job: rejected under critical pressure, and under high pressure   *)
(* for a job of low priority                                              *)
QueueJob(priority) ==
    /\ resources.accepted < MaxJobsQueued
    /\ resources' =
         IF \/ resources.current_status = "critical"
            \/ resources.current_status = "high" /\ priority = "LOW"
         THEN [resources EXCEPT !.queue_result = "rejected"]
         ELSE [resources EXCEPT !.queue_result = "queued",
                                !.queued = @ + 1, !.accepted = @ + 1]
    /\ UNCHANGED <<typingJobVars, rainVars, rateVars, serviceVars, preview>>

(* _process_queue: len(running_jobs) >= _get_max_concurrent() sleeps and  *)
(* tries again                                                            *)
ProcessorChecks ==
    /\ resources.processor = "check"
    /\ resources' =
         IF resources.running_jobs >=
               MaxConcurrentFor(resources.current_status)
         THEN resources
         ELSE [resources EXCEPT !.processor = "get"]
    /\ UNCHANGED <<typingJobVars, rainVars, rateVars, serviceVars, preview>>

(* job_queue.get(timeout=1): a job, or the timeout on an empty queue *)
ProcessorGets ==
    /\ resources.processor = "get"
    /\ resources' =
         IF resources.queued > 0
         THEN [resources EXCEPT !.queued = @ - 1, !.processor = "start"]
         ELSE [resources EXCEPT !.processor = "check"]
    /\ UNCHANGED <<typingJobVars, rainVars, rateVars, serviceVars, preview>>

(* _start_job: the job enters running_jobs and its thread is started *)
ProcessorStarts ==
    /\ resources.processor = "start"
    /\ resources' = [resources EXCEPT !.running_jobs = @ + 1,
                                      !.processor = "check"]
    /\ UNCHANGED <<typingJobVars, rainVars, rateVars, serviceVars, preview>>

(* job_wrapper's finally: the job leaves running_jobs *)
QueuedJobFinishes ==
    /\ resources.running_jobs > 0
    /\ resources' = [resources EXCEPT !.running_jobs = @ - 1]
    /\ UNCHANGED <<typingJobVars, rainVars, rateVars, serviceVars, preview>>

InitResources ==
    /\ resources = NoResources
    /\ preview = NoPreview
    /\ NoServices
    /\ NoRain
    /\ NoRateLimiter
    /\ NoTypingJob

NextResources ==
    \/ \E cpu \in Readings, memory \in Readings, disk \in Readings :
          MonitorUpdates(cpu, memory, disk)
    \/ \E priority \in Priorities : QueueJob(priority)
    \/ ProcessorChecks
    \/ ProcessorGets
    \/ ProcessorStarts
    \/ QueuedJobFinishes

ResourceSpec == InitResources /\ [][NextResources]_vars

(***************************************************************************)
(* WebSocketManager.  preview_sessions maps a session_id to the session    *)
(* dict registered under it, 0 for none; made lists every session dict     *)
(* ever created, each with the task generate_preview_stream created for    *)
(* it: task is where the task is suspended (created: not yet run,          *)
(* sending: in websocket.send, sleeping: in asyncio.sleep, ended), session *)
(* the dict the task fetched when it first ran.  All coroutines run on one *)
(* event loop, so an action runs from one suspension point to the next.    *)
(* received[sid] lists the preview_frame messages sent for sid since the   *)
(* last start_preview for it, each with the dict whose frame_count it      *)
(* carries.  op, session_id and client_id name the last step.              *)
(***************************************************************************)
MaxSessions == 2

MaxPreviewFrames == 2

Registered(sid) == preview.preview_sessions[sid] # 0

(* handle_start_preview with parameters given: the dict is stored under    *)
(* session_id, replacing any dict already there, and the stream task is    *)
(* created                                                                 *)
StartPreview(client, sid) ==
    /\ client \in preview.connections
    /\ Len(preview.made) < MaxSessions
    /\ preview' = [preview EXCEPT
           !.made = Append(@, [session_id |-> sid, client_id |-> client,
                               active |-> TRUE, frame_count |-> 0,
                               task |-> "created", session |-> 0]),
           !.preview_sessions[sid] = Len(preview.made) + 1,
           !.received[sid] = <<>>,
           !.op = "start_preview", !.session_id = sid,
           !.client_id = client]
    /\ UNCHANGED <<typingJobVars, rainVars, rateVars, serviceVars, resources>>

(* handle_stop_preview for a registered session_id, from any connection *)
StopPreview(client, sid) ==
    /\ client \in preview.connections
    /\ Registered(sid)
    /\ preview' = [preview EXCEPT
           !.made[preview.preview_sessions[sid]].active = FALSE,
           !.preview_sessions[sid] = 0,
           !.op = "stop_preview", !.session_id = sid,
           !.client_id = client]
    /\ UNCHANGED <<typingJobVars, rainVars, rateVars, serviceVars, resources>>

(* handle_connection's finally: the client's sessions are deleted, their   *)
(* active flags stay as they are                                           *)
Disconnect(client) ==
    /\ client \in preview.connections
    /\ preview' = [preview EXCEPT
           !.connections = @ \ {client},
           !.preview_sessions =
               [sid \in SessionIds |->
                   IF /\ Registered(sid)
                      /\ preview.made[preview.preview_sessions[sid]].client_id
                            = client
                   THEN 0 ELSE preview.preview_sessions[sid]],
           !.op = "disconnect", !.session_id = "none",
           !.client_id = client]
    /\ UNCHANGED <<typingJobVars, rainVars, rateVars, serviceVars, resources>>

(* the dict a stream task works on: the one it fetched by session_id when  *)
(* it first ran                                                            *)
SessionOf(p, t) ==
    IF p.made[t].task = "created"
    THEN p.preview_sessions[p.made[t].session_id]
    ELSE p.made[t].session

(* the while condition of generate_preview_stream *)
StreamGoesOn(p, t) ==
    /\ SessionOf(p, t) # 0
    /\ p.made[SessionOf(p, t)].active
    /\ p.preview_sessions[p.made[t].session_id] # 0

(* the task runs from its creation or from asyncio.sleep to websocket.send *)
(* of the next frame                                                       *)
StreamSends(t) ==
    /\ preview.made[t].task \in {"created", "sleeping"}
    /\ StreamGoesOn(preview, t)
    /\ Len(preview.received[preview.made[t].session_id]) < MaxPreviewFrames
    /\ LET sid == preview.made[t].session_id
           session == SessionOf(preview, t)
       IN  preview' = [preview EXCEPT
               !.made[t].task = "sending",
               !.made[t].session = session,
               !.received[sid] =
                   Append(@, [session |-> session,
                              frame_number |->
                                  preview.made[session].frame_count]),
               !.op = "preview_frame", !.session_id = sid,
               !.client_id = "none"]
    /\ UNCHANGED <<typingJobVars, rainVars, rateVars, serviceVars, resources>>

(* websocket.send returned (send_message swallows its exceptions): the     *)
(* frame is counted and the task sleeps                                    *)
StreamSent(t) ==
    /\ preview.made[t].task = "sending"
    /\ preview' = [preview EXCEPT
           !.made[preview.made[t].session].frame_count = @ + 1,
           !.made[t].task = "sleeping",
           !.op = "sent", !.session_id = preview.made[t].session_id,
           !.client_id = "none"]
    /\ UNCHANGED <<typingJobVars, rainVars, rateVars, serviceVars, resources>>

(* the task finds no dict or its while condition false and runs its        *)
(* finally: whatever is registered under its session_id is deleted         *)
StreamEnds(t) ==
    /\ preview.made[t].task \in {"created", "sleeping"}
    /\ ~StreamGoesOn(preview, t)
    /\ preview' = [preview EXCEPT
           !.made[t].task = "ended",
           !.made[t].session = SessionOf(preview, t),
           !.preview_sessions[preview.made[t].session_id] = 0,
           !.op = "stream_cleanup",
           !.session_id = preview.made[t].session_id,
           !.client_id = "none"]
    /\ UNCHANGED <<typingJobVars, rainVars, rateVars, serviceVars, resources>>

InitPreview ==
    /\ preview = NoPreview
    /\ resources = NoResources
    /\ NoServices
    /\ NoRain
    /\ NoRateLimiter
    /\ NoTypingJob

NextPreview ==
    \/ \E client \in PreviewClients, sid \in SessionIds :
          StartPreview(client, sid)
    \/ \E client \in PreviewClients, sid \in SessionIds :
          StopPreview(client, sid)
    \/ \E client \in PreviewClients : Disconnect(client)
    \/ \E t \in DOMAIN preview.made : StreamSends(t)
    \/ \E t \in DOMAIN preview.made : StreamSent(t)
    \/ \E t \in DOMAIN preview.made : StreamEnds(t)

PreviewSpec == InitPreview /\ [][NextPreview]_vars

(***************************************************************************)
(* ErrorRecoveryService.execute_retry_strategy(operation, context,         *)
(* max_retries, base_delay).  Delays are in milliseconds.  calls records   *)
(* the outcome of every call of the operation (TRUE for a result, FALSE    *)
(* for an exception), slept the delays passed to time.sleep.  An error is  *)
(* the exception of an attempt of the operation, the ValueError of         *)
(* time.sleep for a negative delay, or the TypeError of raise None.        *)
(***************************************************************************)
RetryCounts == 0..MaxRetries

BaseDelays == {-1000, 0, 1000, 2000}

(* time.time() % 1, in milliseconds *)
TimeFractions == {0, 500, 999}

RECURSIVE Pow2(_)
Pow2(n) == IF n <= 0 THEN 1 ELSE 2 * Pow2(n - 1)

(* the quotient truncated toward zero *)
Quotient(a, b) == IF a >= 0 THEN a \div b ELSE -((-a) \div b)

(* delay + jitter, jitter = delay * 0.1 * (0.5 - time.time() % 1) *)
TotalDelay(base_delay, attempt, fraction) ==
    LET delay == base_delay * Pow2(attempt - 1)
    IN  delay + Quotient(delay * (500 - fraction), 10000)

(* for attempt in range(1, max_retries): one attempt too few *)
AttemptRangeShort(max_retries) == 1..(max_retries - 1)

(* for attempt in range(1, max_retries + 1) *)
AttemptRange(max_retries) == 1..max_retries

(***************************************************************************)
(* One iteration of the loop: the operation is called; its result is       *)
(* returned at once; after an exception the last attempt breaks out and    *)
(* raises it, any other attempt sleeps and goes on.                        *)
(***************************************************************************)
Attempt ==
    /\ retry.state = "running"
    /\ retry.attempt \in AttemptRange(retry.max_retries)
    /\ \E succeeds \in BOOLEAN, fraction \in TimeFractions :
          LET called == [retry EXCEPT !.calls = Append(@, succeeds)]
              failure == [kind |-> "operation", attempt |-> retry.attempt]
              failed == [called EXCEPT !.last_error = failure]
              total_delay == TotalDelay(retry.base_delay, retry.attempt,
                                        fraction)
          IN  retry' =
                 IF succeeds
                 THEN [called EXCEPT !.state = "returned",
                                     !.result = retry.attempt]
                 ELSE IF retry.attempt = retry.max_retries
                 THEN [failed EXCEPT !.state = "raised", !.error = failure]
                 ELSE IF total_delay < 0
                 THEN [failed EXCEPT
                          !.state = "raised",
                          !.error = [kind |-> "ValueError",
                                     attempt |-> retry.attempt]]
                 ELSE [failed EXCEPT !.slept = Append(@, total_delay),
                                     !.attempt = @ + 1]
    /\ UNCHANGED <<typingJobVars, supportVars, rainVars, rateVars, upload, shutdown,
                   link, batch>>

(* the loop ends without a break: raise last_error *)
LoopEnds ==
    /\ retry.state = "running"
    /\ retry.attempt \notin AttemptRange(retry.max_retries)
    /\ retry' = [retry EXCEPT
                    !.state = "raised",
                    !.error = IF retry.last_error = NoError
                              THEN [kind |-> "TypeError", attempt |-> 0]
                              ELSE retry.last_error]
    /\ UNCHANGED <<typingJobVars, supportVars, rainVars, rateVars, upload, shutdown,
                   link, batch>>

InitRetry ==
    /\ retry \in [max_retries : RetryCounts, base_delay : BaseDelays,
                   state : {"running"}, attempt : {1}, calls : {<<>>},
                   slept : {<<>>}, result : {0}, last_error : {NoError},
                   error : {NoError}]
    /\ upload = NoUpload
    /\ shutdown = NoShutdown
    /\ link = NoLink
    /\ batch = NoBatch
    /\ NoRain
    /\ NoRateLimiter
    /\ NoSupport
    /\ NoTypingJob

NextRetry == Attempt \/ LoopEnds

RetrySpec == InitRetry /\ [][NextRetry]_vars

(***************************************************************************)
(* The rate limiter of the web API.  time.time() is wall_clock, in ticks;  *)
(* client_requests maps a client to its deque of timestamps.  A call of    *)
(* is_allowed reads the time before it takes the lock, so the read         *)
(* (EnterIsAllowed) and the locked section together with the decorator's   *)
(* response (Decide) are two steps, and other threads may run in between.  *)
(* decisions records every decision with the time the call read.  The      *)
(* cleanup thread first runs after cleanup_interval = 300 s, beyond the     *)
(* time the clock covers here.                                             *)
(***************************************************************************)
Clients == {"a", "b"}

NoCall == [client |-> "", current_time |-> -1]

NoResponse == [status |-> 0, headers |-> <<>>]

WindowTicks == WINDOW_SIZE * TicksPerSecond

(* the clock moves by one tick or by one tick less than the window *)
ClockJumps == {1, WindowTicks - 1}

(* int(x) of x = ticks / TicksPerSecond seconds: truncation toward zero *)
IntSeconds(ticks) ==
    IF ticks >= 0
    THEN ticks \div TicksPerSecond
    ELSE -((-ticks) \div TicksPerSecond)

(* while requests and requests[0] < cutoff_time: requests.popleft() *)
RECURSIVE PopOld(_, _)
PopOld(requests, cutoff_time) ==
    IF requests # <<>> /\ requests[1] < cutoff_time
    THEN PopOld(Tail(requests), cutoff_time)
    ELSE requests

(* an Optional[int] is <<>> for None and <<v>> for v; its truth value *)
Truthy(opt) == opt # <<>> /\ opt[1] # 0

(***************************************************************************)
(* The locked section of is_allowed for a call that read current_time:     *)
(* the deque after it, the decision and rate_limit_info.                   *)
(***************************************************************************)
IsAllowed(requests, limit, current_time) ==
    LET kept == PopOld(requests, current_time - WindowTicks)
        current_count == Len(kept)
        is_allowed == current_count < limit
        after == IF is_allowed THEN Append(kept, current_time) ELSE kept
    IN  [requests |-> after,
         is_allowed |-> is_allowed,
         info |->
            [limit |-> limit,
             remaining |-> Max(0, limit - current_count
                                   - (IF is_allowed THEN 1 ELSE 0)),
             reset |-> IF after # <<>>
                       THEN <<IntSeconds(after[1] + WindowTicks)>>
                       ELSE <<>>,
             retry_after |->
                IF ~is_allowed /\ after # <<>>
                THEN <<IntSeconds(after[1] + WindowTicks - current_time)>>
                ELSE <<>>]]

(* the headers rate_limit_decorator sets on its 429 response *)
RejectionHeaders(info) ==
    LET names == {"X-RateLimit-Limit", "X-RateLimit-Remaining"}
                 \cup (IF Truthy(info.reset)
                       THEN {"X-RateLimit-Reset"} ELSE {})
                 \cup (IF Truthy(info.retry_after)
                       THEN {"Retry-After"} ELSE {})
    IN  [name \in names |->
            CASE name = "X-RateLimit-Limit" -> info.limit
              [] name = "X-RateLimit-Remaining" -> info.remaining
              [] name = "X-RateLimit-Reset" -> info.reset[1]
              [] name = "Retry-After" -> info.retry_after[1]]

(* time passes *)
Advance ==
    /\ clock_steps < MaxClockSteps
    /\ \E jump \in ClockJumps : wall_clock' = wall_clock + jump
    /\ clock_steps' = clock_steps + 1
    /\ UNCHANGED <<requests_per_minute, client_requests, calls, decisions,
                   response, rainVars, serviceVars, typingJobVars, supportVars>>

InFlight == {t \in Threads : calls[t] # NoCall}

(* a request of client_ip enters is_allowed: current_time = time.time() *)
EnterIsAllowed(t, client_ip) ==
    /\ calls[t] = NoCall
    /\ Len(decisions) + Cardinality(InFlight) < MaxRequests
    /\ calls' = [calls EXCEPT ![t] = [client |-> client_ip,
                                      current_time |-> wall_clock]]
    /\ UNCHANGED <<requests_per_minute, client_requests, wall_clock,
                   clock_steps, decisions, response, rainVars, serviceVars,
                   typingJobVars, supportVars>>

(* with self.lock: ... return; then the decorator passes or answers 429 *)
Decide(t) ==
    /\ calls[t] # NoCall
    /\ LET client_ip == calls[t].client
           r == IsAllowed(client_requests[client_ip], requests_per_minute,
                          calls[t].current_time)
       IN  /\ client_requests' =
                  [client_requests EXCEPT ![client_ip] = r.requests]
           /\ decisions' = Append(decisions,
                                  [client |-> client_ip,
                                   time |-> calls[t].current_time,
                                   allowed |-> r.is_allowed])
           /\ response' = IF r.is_allowed
                          THEN [status |-> 200, headers |-> <<>>]
                          ELSE [status |-> 429,
                                headers |-> RejectionHeaders(r.info)]
    /\ calls' = [calls EXCEPT ![t] = NoCall]
    /\ UNCHANGED <<requests_per_minute, wall_clock, clock_steps, rainVars,
                   serviceVars, typingJobVars, supportVars>>

InitRate ==
    /\ requests_per_minute \in 1..MaxRequestsPerMinute
    /\ client_requests = [c \in Clients |-> <<>>]
    /\ wall_clock = 0
    /\ clock_steps = 0
    /\ calls = [t \in Threads |-> NoCall]
    /\ decisions = <<>>
    /\ response = NoResponse
    /\ NoRain
    /\ NoServices
    /\ NoSupport
    /\ NoTypingJob

NextRate ==
    \/ Advance
    \/ \E t \in Threads, client_ip \in Clients : EnterIsAllowed(t, client_ip)
    \/ \E t \in Threads : Decide(t)

RateSpec == InitRate /\ [][NextRate]_vars

TypeOK ==
    /\ pc \in {"none", "request", "rejected", "setup", "plan", "run", "exit",
               "assemble", "done", "failed", "returned"}
    /\ loop_state \in {"typing", "paused", "fading", "restarting"}
    /\ typing_state_inner \in
          {"normal", "post_typo", "backspacing", "correcting"}
    /\ pending \in 0..MaxEventsPerFrame
    /\ Len(current_display_line) <= MaxDisplayLen

(***************************************************************************)
(*                               Claims                                    *)
(***************************************************************************)

(***************************************************************************)
(* C1: for every planned typo, when inner_state returns to Normal after    *)
(* the PostTypo -> Backspacing -> Correcting sequence, the display line    *)
(* holds the source line's correct content: either the line is committed   *)
(* as typed, equal to its source line, or the display line is a prefix of  *)
(* the source line (no wrong character, nothing missing, nothing           *)
(* duplicated).                                                            *)
(***************************************************************************)
C1_DisplayCorrectAfterRecovery ==
    [][(typing_state_inner = "correcting" /\ typing_state_inner' = "normal")
       => LET line == code_lines[current_line + 1]
          IN  IF current_line' = current_line + 1
              THEN typed_lines'[Len(typed_lines')] = line
              ELSE IsPrefix(current_display_line', line)]_vars

(***************************************************************************)
(* C2: every entry of the typo plan lies on a line of length > 3, at a     *)
(* valid index of that line, with a wrong character different from the     *)
(* line's character at that position; a line has at most one planned typo. *)
(***************************************************************************)
C2_TypoPlanLegal ==
    /\ \A t \in typo_positions :
          /\ t.line \in 0..(Len(code_lines) - 1)
          /\ Len(code_lines[t.line + 1]) > 3
          /\ t.pos \in 0..(Len(code_lines[t.line + 1]) - 1)
          /\ t.wrong # code_lines[t.line + 1][t.pos + 1]
    /\ \A t, u \in typo_positions : t.line = u.line => t = u

C2_Witness ==
    /\ pc = "run"
    /\ Cardinality(typo_positions) = 2
    /\ \E t \in typo_positions : t.wrong = "a"
    /\ \E t \in typo_positions : t.wrong = "x" /\ t.pos = 0

(***************************************************************************)
(* C3: provided character-timer events keep arriving, a session in         *)
(* loop_state Typing eventually commits every line and reaches Paused.     *)
(***************************************************************************)
C3_TypingPassTerminates ==
    (pc = "run" /\ loop_state = "typing")
        ~> (loop_state = "paused" /\ typed_lines = code_lines)

(***************************************************************************)
(* C4: completed_lines is always a prefix of the line buffer, and once     *)
(* loop_state has left Typing for Paused it equals the line buffer.        *)
(***************************************************************************)
C4_CompletedLinesMatch ==
    /\ IsPrefix(typed_lines, code_lines)
    /\ loop_state # "typing" => typed_lines = code_lines

C4_Witness ==
    /\ loop_state = "paused"
    /\ pause_timer = 0
    /\ Len(typed_lines) = 2
    /\ Len(typed_lines[2]) > 3

(***************************************************************************)
(* C5: inner_state # Normal implies loop_state = Typing.                   *)
(***************************************************************************)
C5_RecoveryOnlyWhileTyping ==
    typing_state_inner # "normal" => loop_state = "typing"

C5_Witness ==
    /\ pc = "run"
    /\ typing_state_inner = "correcting"
    /\ correction_index = 1
    /\ loop_state = "typing"

(***************************************************************************)
(* C6: scroll_offset is never negative and decreases only on the           *)
(* Restarting transition, which sets it to 0.                              *)
(***************************************************************************)
C6_ScrollMonotone ==
    [][/\ scroll_offset' >= 0
       /\ scroll_offset' < scroll_offset
             => /\ loop_state = "restarting"
                /\ loop_state' = "typing"
                /\ scroll_offset' = 0]_vars

C6_Witness ==
    /\ loop_state = "restarting"
    /\ scroll_offset = 2

(***************************************************************************)
(* C7: the scroll offset every frame is composed with is                   *)
(* pending - capacity + 1 when pending >= capacity and 0 otherwise, where  *)
(* pending = len(completed_lines) + (1 if a line is in progress); outside  *)
(* the Restarting frame it is also the scroll_offset kept afterwards.      *)
(* With capacity 5 and 7 lines the offset is 0 until the 5th line starts,  *)
(* 1 while the 5th line is in progress and 2 while the 6th is.             *)
(***************************************************************************)
C7_ScrollFormula ==
    [][Frame
       => LET npending == Len(typed_lines) +
                          (IF current_line < Len(code_lines) THEN 1 ELSE 0)
              expected == IF npending >= max_visible_lines
                          THEN npending - max_visible_lines + 1
                          ELSE 0
          IN  /\ frame'.scroll_offset = expected
              /\ loop_state # "restarting" => scroll_offset' = expected
              /\ (max_visible_lines = 5 /\ Len(code_lines) = 7)
                    => /\ current_line < 4 => frame'.scroll_offset = 0
                       /\ current_line = 4 => frame'.scroll_offset = 1
                       /\ current_line = 5 => frame'.scroll_offset = 2]_vars

C7_Witness ==
    /\ loop_state = "typing"
    /\ max_visible_lines = 5
    /\ Len(code_lines) = 7
    /\ Len(typed_lines) = 5
    /\ current_line = 5
    /\ scroll_offset = 2
    /\ frame.scroll_offset = 2

(***************************************************************************)
(* C8: while a line is in progress it is drawn inside the viewport at a    *)
(* row index (the number of visible completed lines above it) of at most   *)
(* capacity - 1, and on the bottom row, capacity - 1, once pending has     *)
(* reached capacity.                                                       *)
(***************************************************************************)
C8_PartialLineOnBottomRow ==
    [][(Frame /\ current_line < Len(code_lines))
       => /\ frame'.partial_drawn
          /\ frame'.visible_line_count <= max_visible_lines - 1
          /\ Len(typed_lines) + 1 >= max_visible_lines
                => frame'.visible_line_count = max_visible_lines - 1]_vars

(***************************************************************************)
(* C9: loop_state is Paused for exactly pause_seconds * fps frames, then   *)
(* Fading for exactly fade_frames frames, then Restarting, which moves to  *)
(* Typing on its frame; loop_state changes in no other order.              *)
(***************************************************************************)
C9_LoopStateSequence ==
    [][/\ loop_state' # loop_state
          => \/ /\ loop_state = "typing" /\ loop_state' = "paused"
                /\ pause_timer' = 0
             \/ /\ loop_state = "paused" /\ loop_state' = "fading"
                /\ pause_timer' = TYPING_LOOP_PAUSE_SECONDS * Fps
                /\ fade_timer' = 0
             \/ /\ loop_state = "fading" /\ loop_state' = "restarting"
                /\ fade_timer' = TYPING_FADE_FRAMES
             \/ /\ loop_state = "restarting" /\ loop_state' = "typing"
       /\ (Frame /\ loop_state = "paused") => pause_timer' = pause_timer + 1
       /\ (Frame /\ loop_state = "fading") => fade_timer' = fade_timer + 1
       /\ (Frame /\ loop_state = "restarting") => loop_state' = "typing"
       /\ ~Frame => /\ loop_state = "paused" => pause_timer' = pause_timer
                    /\ loop_state = "fading" => fade_timer' = fade_timer]_vars

C9_Witness ==
    /\ loop_state = "restarting"
    /\ fade_timer = TYPING_FADE_FRAMES
    /\ pause_timer = TYPING_LOOP_PAUSE_SECONDS * Fps

(***************************************************************************)
(* C10: the Restarting transition leaves the whole session state equal to  *)
(* its state at job start, with the character timer running and the typo   *)
(* plan unchanged; the typo plan never changes once the loop runs.         *)
(***************************************************************************)
C10_RestartRestoresStartState ==
    [][/\ (loop_state = "restarting" /\ loop_state' = "typing")
          => /\ current_line' = 0
             /\ current_char' = 0
             /\ typed_lines' = <<>>
             /\ current_display_line' = <<>>
             /\ typing_state_inner' = "normal"
             /\ typo_buffer' = <<>>
             /\ typo_correct_char' = ""
             /\ typo_delay_counter' = 0
             /\ backspace_count' = 0
             /\ correction_index' = 0
             /\ typo_error_pos' = 0
             /\ scroll_offset' = 0
             /\ cursor_visible' = TRUE
             /\ cursor_blink_timer' = 0
             /\ pause_timer' = 0
             /\ fade_timer' = 0
             /\ timer_active' = TRUE
       /\ pc = "run" => typo_positions' = typo_positions]_vars

C10_Witness ==
    /\ pc = "run"
    /\ loop_state = "typing"
    /\ typed_lines = <<>>
    /\ scroll_offset = 0
    /\ frame.visible_line_count = 1
    /\ frame.scroll_offset = 1
    /\ ~frame.partial_drawn

(***************************************************************************)
(* C11: for identical inputs and an identical random seed (the same typo   *)
(* plan), two runs of the typing engine produce the same frames: at every  *)
(* frame index the second run hands the sink what the first run handed it  *)
(* at that index, drawn from the same session state.                       *)
(***************************************************************************)
C11_TwoRunsSameFrames ==
    (run_no = 2 /\ last_frame.index = first_run.index)
        => last_frame = first_run

C13_ProgressMonotone ==
    /\ \A i \in 1..Len(progress) : progress[i] \in 0..100
    /\ \A i \in 1..(Len(progress) - 1) :
          progress[i] <= progress[i + 1] /\ progress[i] < 100
    /\ progress_callback
          => (pc = "done"
                <=> (progress # <<>> /\ progress[Len(progress)] = 100))

C13_Witness ==
    /\ pc = "done"
    /\ Len(progress) = 7
    /\ progress[3] = 15
    /\ progress[4] = 15
    /\ progress[5] > 15
    /\ progress[6] = 90
    /\ progress[7] = 100

(***************************************************************************)
(* C14: with an out-of-range parameter (typing speed <= 0 or a negative    *)
(* duration) the call fails before the first tick: it never enters or      *)
(* passes the frame loop, saves no frame and never returns an output.      *)
(***************************************************************************)
C14_OutOfRangeFailsFast ==
    (typing_speed <= 0 \/ duration < 0)
        => /\ pc \in {"setup", "plan", "failed"}
           /\ frames = <<>>
           /\ ~output_file

(***************************************************************************)
(* C15: with an empty line buffer no fault is raised and no line is ever   *)
(* completed; the first character event moves the session from Typing to   *)
(* Paused and stops the character timer, and the pause / fade / restart    *)
(* cycle proceeds as for any other input: Paused for pause_seconds * fps   *)
(* frames, Fading for fade_frames frames, then Restarting, whose frame     *)
(* returns to Typing with the character timer running.                     *)
(***************************************************************************)
C15_EmptyBufferPauses ==
    [][code_lines = <<>>
       => /\ pc' # "failed"
          /\ typed_lines' = <<>>
          /\ current_display_line' = <<>>
          /\ (TypeEvent /\ loop_state = "typing")
                => /\ loop_state' = "paused"
                   /\ pause_timer' = 0
                   /\ ~timer_active'
          /\ (Frame /\ loop_state = "typing") => loop_state' = "typing"
          /\ (Frame /\ loop_state = "paused")
                => loop_state' = IF pause_timer + 1 >= PauseDurationFrames
                                 THEN "fading" ELSE "paused"
          /\ (Frame /\ loop_state = "fading")
                => loop_state' = IF fade_timer + 1 >= FadeDurationFrames
                                 THEN "restarting" ELSE "fading"
          /\ (Frame /\ loop_state = "restarting")
                => loop_state' = "typing" /\ timer_active']_vars

C15_Witness ==
    /\ code_lines = <<>>
    /\ pc = "run"
    /\ loop_state = "restarting"
    /\ pause_timer = PauseDurationFrames
    /\ fade_timer = FadeDurationFrames
    /\ frame.fade_alpha = FadeAlpha(FadeDurationFrames)
    /\ typed_lines = <<>>
    /\ ~timer_active

(***************************************************************************)
(* C16: two typing jobs running concurrently in the same process do not    *)
(* affect each other.  A job whose lines carry no planned typo, left       *)
(* alone, goes on from any line it is typing to the end of its text as     *)
(* long as its frames are rendered; it does so too, with the same typed    *)
(* content, whatever the other job does with its own character timer.      *)
(***************************************************************************)
C16_TypingUnaffectedByOtherJob ==
    (pc = "run" /\ loop_state = "typing" /\ current_line < Len(code_lines))
        ~> (typed_lines = code_lines)

(***************************************************************************)
(* C17: in the rain engine, on every tick and for every column, each       *)
(* glyph entity that stays in the column keeps its character and has a     *)
(* strictly greater row_position; an entity is removed if and only if its  *)
(* pixel row, after the tick's advance, exceeds viewport_height +          *)
(* reset_variance (the removed entities are the k oldest of the list, the  *)
(* tick adds at most one entity); and the entity list of a column whose    *)
(* head has been reset, which is the only way a head moves back, is empty. *)
(***************************************************************************)
C17_RainEntityLifecycle ==
    [][RainTick
       => \A c \in DOMAIN columns :
            LET old == columns[c].glyphs
                new == columns'[c].glyphs
                tier == columns[c].font_tier
                limit == ViewportHeight + reset_variance_px
            IN  /\ \E k \in 0..Len(old) :
                      /\ \A i \in 1..k :
                            (old[i].row_position + speed) * tier > limit
                      /\ \A i \in (k + 1)..Len(old) :
                            /\ i - k <= Len(new)
                            /\ new[i - k].character = old[i].character
                            /\ new[i - k].row_position > old[i].row_position
                            /\ new[i - k].row_position * tier <= limit
                      /\ Len(new) <= Len(old) - k + 1
                /\ \A i \in 1..Len(new) : new[i].row_position * tier <= limit
                /\ columns'[c].head_position < columns[c].head_position
                      => new = <<>>]_vars

C17_Witness ==
    /\ columns # <<>>
    /\ columns[1].glyphs = <<>>
    /\ columns[2].head_position - columns[1].head_position > 1
    /\ Len(columns[2].glyphs) >= 2
    /\ columns[2].glyphs[1].character # columns[2].glyphs[2].character

C19_AllowedWithinLimit ==
    \A i \in 1..Len(decisions) :
        decisions[i].allowed =>
            Cardinality({j \in 1..Len(decisions) :
                            /\ decisions[j].allowed
                            /\ decisions[j].client = decisions[i].client
                            /\ decisions[j].time <= decisions[i].time
                            /\ decisions[j].time
                                  > decisions[i].time - WindowTicks})
                <= requests_per_minute

(***************************************************************************)
(* C20: every 429 response of the rate limiter carries X-RateLimit-Limit,  *)
(* X-RateLimit-Remaining and Retry-After.                                  *)
(***************************************************************************)
C20_RejectionHeaders ==
    response.status = 429 =>
        {"X-RateLimit-Limit", "X-RateLimit-Remaining", "Retry-After"}
            \subseteq DOMAIN response.headers

RetryContract ==
    LET n == Len(retry.calls)
    IN  /\ n <= retry.max_retries
        /\ \A i \in 1..(n - 1) : ~retry.calls[i]
        /\ retry.state = "running" => \A i \in 1..n : ~retry.calls[i]
        /\ retry.state = "returned" => n >= 1 /\ retry.calls[n]
                                       /\ retry.result = n
        /\ retry.state = "raised" =>
              /\ n = retry.max_retries
              /\ \A i \in 1..n : ~retry.calls[i]
              /\ retry.error = [kind |-> "operation", attempt |-> n]

C22_RetryWithDelay ==
    (retry.max_retries >= 1 /\ retry.base_delay >= 0) => RetryContract

C22_Witness ==
    /\ retry.max_retries = MaxRetries
    /\ retry.base_delay > 0
    /\ retry.state = "raised"
    /\ Len(retry.slept) = MaxRetries - 1

(* C22 as stated, for every base_delay *)
C22_RetryAnyDelay == retry.max_retries >= 1 => RetryContract

C24_AccessLimit ==
    link.max_access_count >= 1 => link.granted <= link.max_access_count

(***************************************************************************)
(* C25: a control call on a batch succeeds only from the statuses its      *)
(* guard names (start from pending, pause from running, resume from        *)
(* paused, cancel from running or paused, delete from completed, failed    *)
(* or cancelled, and only delete removes the batch); a refused call        *)
(* returns False and leaves the batch unchanged.                           *)
(***************************************************************************)
BatchGuardsRespected ==
    batch'.ops # batch.ops =>
       /\ (batch'.op = "start" /\ batch'.returned) =>
             batch.stored /\ batch.status = "pending"
                          /\ batch'.status = "running" /\ batch'.stored
       /\ (batch'.op = "pause" /\ batch'.returned) =>
             batch.stored /\ batch.status = "running"
                          /\ batch'.status = "paused" /\ batch'.stored
       /\ (batch'.op = "resume" /\ batch'.returned) =>
             batch.stored /\ batch.status = "paused"
                          /\ batch'.status = "running" /\ batch'.stored
       /\ (batch'.op = "cancel" /\ batch'.returned) =>
             batch.stored /\ batch.status \in {"running", "paused"}
                          /\ batch'.status = "cancelled" /\ batch'.stored
       /\ (batch'.op = "delete" /\ batch'.returned) =>
             batch.stored
             /\ batch.status \in {"completed", "failed", "cancelled"}
             /\ ~batch'.stored
       /\ ~batch'.returned => BatchJob(batch') = BatchJob(batch)

C25_BatchStatusGuards == [][BatchGuardsRespected]_vars

C25_Witness ==
    /\ batch.op = "delete"
    /\ batch.returned
    /\ ~batch.stored
    /\ batch.status = "completed"
    /\ batch.completed_items = MaxItems

(***************************************************************************)
(* A TYPE_EVENT is about to be handled for a line of the buffer.           *)
(***************************************************************************)
CharacterEvent ==
    /\ pc = "run"
    /\ pending > 0
    /\ loop_state = "typing"
    /\ HasLine(current_line, code_lines)

(***************************************************************************)
(* C26: in PostTypo each character event appends the next source character *)
(* (if any remains) to the display line and to typo_buffer and decrements  *)
(* the countdown; the state moves to Backspacing on the event on which the *)
(* countdown reaches zero or the line ends, with one transition when both  *)
(* happen, and backspace_count = len(typo_buffer) + 1; otherwise it stays  *)
(* in PostTypo.                                                            *)
(***************************************************************************)
C26_PostTypoStep ==
    [][(CharacterEvent /\ typing_state_inner = "post_typo") =>
         LET line == code_lines[current_line + 1]
             more == current_char < Len(line)
             typed == IF more THEN current_char + 1 ELSE current_char
         IN  /\ current_display_line' =
                  IF more
                  THEN AppendChar(current_display_line, line[current_char + 1])
                  ELSE current_display_line
             /\ typo_buffer' =
                  IF more THEN Append(typo_buffer, line[current_char + 1])
                  ELSE typo_buffer
             /\ typo_delay_counter' = typo_delay_counter - 1
             /\ IF typo_delay_counter' <= 0 \/ typed >= Len(line)
                THEN /\ typing_state_inner' = "backspacing"
                     /\ backspace_count' = Len(typo_buffer') + 1
                ELSE /\ typing_state_inner' = "post_typo"
                     /\ current_char' = typed
                     /\ backspace_count' = backspace_count]_vars

(* the countdown, not the end of the line, ended a wait of two events *)
C26_Witness ==
    /\ typing_state_inner = "backspacing"
    /\ error_delay_frames = 2
    /\ typo_delay_counter = 0
    /\ Len(typo_buffer) = 2
    /\ backspace_count = 3
    /\ typo_error_pos + 3 < Len(code_lines[current_line + 1])

(***************************************************************************)
(* C27: the PostTypo countdown is measured in rendered frames: while the   *)
(* state is PostTypo a rendered frame decrements a countdown that is not   *)
(* yet over and a character event leaves the countdown as it is, so that   *)
(* PostTypo is left after error_delay_frames frames however many character *)
(* events occur.                                                           *)
(***************************************************************************)
C27_CountdownInFrames ==
    [][(pc = "run" /\ loop_state = "typing"
        /\ typing_state_inner = "post_typo") =>
          IF pending > 0
          THEN typo_delay_counter' = typo_delay_counter
          ELSE typo_delay_counter > 0 =>
                  typo_delay_counter' = typo_delay_counter - 1]_vars

(***************************************************************************)
(* C28: with an error delay of 0 the countdown starts at zero, and the     *)
(* first character event after the wrong character is appended moves the   *)
(* state from PostTypo to Backspacing.                                     *)
(***************************************************************************)
C28_ZeroDelayNextEvent ==
    [][(error_delay_frames = 0 /\ typing_state_inner = "post_typo") =>
          /\ typo_delay_counter = 0
          /\ typo_buffer = <<>>
          /\ CharacterEvent => typing_state_inner' = "backspacing"]_vars

(* the wait ended after one event with characters left on the line *)
C28_Witness ==
    /\ error_delay_frames = 0
    /\ typing_state_inner = "backspacing"
    /\ Len(typo_buffer) = 1
    /\ backspace_count = 2
    /\ typo_error_pos + 2 < Len(code_lines[current_line + 1])

(***************************************************************************)
(* C29: a character event never reads a character at an index >= the       *)
(* length of the current source line (the handler does not fault); the     *)
(* event on an empty line commits an empty completed line and advances to  *)
(* the next line.                                                          *)
(***************************************************************************)
C29_NoOutOfRangeRead ==
    [][CharacterEvent =>
         /\ pc' # "failed"
         /\ code_lines[current_line + 1] = <<>> =>
               /\ typed_lines' = Append(typed_lines, <<>>)
               /\ current_line' = current_line + 1]_vars

(***************************************************************************)
(* C30: each planned typo is injected once: when the state returns to      *)
(* Normal after a recovery the line is committed or the character index    *)
(* points just after the corrected and replayed characters, and the        *)
(* display line is never longer than the source line being typed.          *)
(***************************************************************************)
C30_TypoInjectedOnce ==
    [][/\ (typing_state_inner = "correcting"
           /\ typing_state_inner' = "normal") =>
             \/ current_line' = current_line + 1
             \/ current_char' = typo_error_pos + 1 + Len(typo_buffer)
       /\ (loop_state' = "typing" /\ HasLine(current_line', code_lines)) =>
             Len(current_display_line') <=
                Len(code_lines[current_line' + 1])]_vars

(***************************************************************************)
(* C31: the caret is drawn only on frames composed while a line is in      *)
(* progress, never while loop_state is paused, fading or restarting; while *)
(* a line is in progress every frame counts towards the blink and the      *)
(* caret's visibility toggles exactly every CursorBlinkInterval frames;    *)
(* frames without a line in progress leave the caret as it is until the    *)
(* restart shows it again.                                                 *)
(***************************************************************************)
LineInProgress == loop_state = "typing" /\ current_line < Len(code_lines)

C31_CaretBlink ==
    [][(pc = "run" /\ pending = 0) =>
         /\ frame'.cursor_drawn =>
               LineInProgress /\ frame'.partial_drawn /\ cursor_visible'
         /\ cursor_blink_timer < CursorBlinkInterval
         /\ IF LineInProgress
            THEN IF cursor_blink_timer + 1 >= CursorBlinkInterval
                 THEN /\ cursor_visible' = ~cursor_visible
                      /\ cursor_blink_timer' = 0
                      /\ frame'.cursor_drawn = cursor_visible'
                 ELSE /\ cursor_visible' = cursor_visible
                      /\ cursor_blink_timer' = cursor_blink_timer + 1
                      /\ frame'.cursor_drawn = cursor_visible'
            ELSE IF loop_state = "restarting"
                 THEN cursor_visible' /\ cursor_blink_timer' = 0
                 ELSE UNCHANGED <<cursor_visible, cursor_blink_timer>>]_vars

(* a frame after a toggle that hid the caret, one frame before the next *)
C31_Witness ==
    /\ LineInProgress
    /\ frame.partial_drawn
    /\ ~frame.cursor_drawn
    /\ ~cursor_visible
    /\ CursorBlinkInterval >= 2
    /\ cursor_blink_timer = CursorBlinkInterval - 1

(***************************************************************************)
(* C32: after the fade overlay has reached full opacity, the frame         *)
(* composed while loop_state is restarting shows no text of the finished   *)
(* pass: it is fully covered by the overlay or no line is drawn on it.     *)
(***************************************************************************)
C32_RestartFrameCovered ==
    [][(pc = "run" /\ pending = 0 /\ loop_state = "restarting") =>
          \/ frame'.fade_alpha = 255
          \/ frame'.visible_line_count = 0 /\ ~frame'.partial_drawn]_vars

(***************************************************************************)
(* C33: on every exit from generate_typing_effect, whether it returned or  *)
(* raised, the character timer it started has been stopped.                *)
(***************************************************************************)
C33_TimerStoppedOnExit == pc \in {"done", "failed"} => ~timer_active

(***************************************************************************)
(* C34: after _update_status, current_status is the most severe of the     *)
(* levels that the CPU, memory and disk readings imply separately          *)
(* (critical over high over moderate over healthy).                        *)
(***************************************************************************)
Severity(status) ==
    CASE status = "healthy" -> 0
      [] status = "moderate" -> 1
      [] status = "high" -> 2
      [] status = "critical" -> 3

LevelOf(reading, moderate, high, critical) ==
    IF reading >= critical THEN "critical"
    ELSE IF reading >= high THEN "high"
    ELSE IF reading >= moderate THEN "moderate"
    ELSE "healthy"

MostSevere(levels) ==
    CHOOSE l \in levels : \A m \in levels : Severity(m) <= Severity(l)

C34_StatusIsWorstLevel ==
    resources.updated =>
       resources.current_status =
          MostSevere({LevelOf(resources.cpu, cpu_moderate, cpu_high,
                              cpu_critical),
                      LevelOf(resources.memory, memory_moderate, memory_high,
                              memory_critical),
                      LevelOf(resources.disk, disk_moderate, disk_high,
                              disk_critical)})

(***************************************************************************)
(* C35: the processor thread never starts a queued job while the monitor   *)
(* reports critical, and when it starts a job the number of running jobs   *)
(* is below the concurrency limit for the status in force at that moment.  *)
(***************************************************************************)
C35_StartWithinLimit ==
    [][resources'.running_jobs = resources.running_jobs + 1 =>
          /\ resources.current_status # "critical"
          /\ resources.running_jobs <
                MaxConcurrentFor(resources.current_status)]_vars

(***************************************************************************)
(* C36: in a started batch that is never paused or cancelled, every item   *)
(* is counted once (completed_items + failed_items never exceeds the       *)
(* number of items), and eventually every item is completed or failed and  *)
(* the batch is completed.                                                 *)
(***************************************************************************)
C36_BatchCompletes ==
    /\ [](batch.completed_items + batch.failed_items <= Len(batch.items))
    /\ (batch.status = "running") ~>
          /\ batch.status = "completed"
          /\ \A i \in DOMAIN batch.items :
                batch.items[i] \in {"completed", "failed"}

(***************************************************************************)
(* C37: once a batch is cancelled its status stays cancelled, whatever     *)
(* the processing thread and the item threads do afterwards, and no item   *)
(* is marked completed after the cancellation.                             *)
(***************************************************************************)
C37_CancelledStays ==
    [][batch.status = "cancelled" =>
          /\ batch'.status = "cancelled"
          /\ \A i \in DOMAIN batch.items :
                batch'.items[i] = "completed" =>
                   batch.items[i] = "completed"]_vars

(***************************************************************************)
(* C38: a preview session registered by start_preview stays registered     *)
(* until a stop_preview for it or its client's disconnect (the cleanup of  *)
(* a stream never removes it), exactly one stream sends frames for it, the *)
(* frames sent for it are numbered 0, 1, 2, ... and no frame is sent for a *)
(* stopped session.                                                        *)
(***************************************************************************)
(* the tasks that send the next frame for sid when they next run *)
Serving(sid) ==
    {t \in DOMAIN preview.made :
        /\ preview.made[t].session_id = sid
        /\ \/ preview.made[t].task = "sending"
           \/ /\ preview.made[t].task \in {"created", "sleeping"}
              /\ StreamGoesOn(preview, t)}

StaysRegistered ==
    \A sid \in SessionIds :
        (Registered(sid) /\ preview'.preview_sessions[sid] = 0) =>
            \/ preview'.op = "stop_preview" /\ preview'.session_id = sid
            \/ /\ preview'.op = "disconnect"
               /\ preview'.client_id =
                      preview.made[preview.preview_sessions[sid]].client_id

OneStream ==
    \A sid \in SessionIds : Registered(sid) => Cardinality(Serving(sid)) = 1

NumberedFrom0 ==
    \A sid \in SessionIds :
        Registered(sid) =>
            \A i \in DOMAIN preview.received[sid] :
                preview.received[sid][i].frame_number = i - 1

NoFrameAfterStop ==
    \A sid \in SessionIds :
        Len(preview'.received[sid]) > Len(preview.received[sid]) =>
            preview.made[preview'.received[sid]
                            [Len(preview'.received[sid])].session].active

C38_PreviewSessionServed ==
    /\ [][StaysRegistered /\ NoFrameAfterStop]_vars
    /\ [](OneStream /\ NumberedFrom0)

(***************************************************************************)
(* C39: once shutdown_requested is true no new video generation job is     *)
(* accepted by the API, and the shutdown sequence runs at most once:       *)
(* shutdown_requested stays true and the sequence never goes back to an    *)
(* earlier phase, however many signals arrive.                             *)
(***************************************************************************)
PhaseOrder(phase) ==
    CASE phase = "serving" -> 0
      [] phase = "waiting" -> 1
      [] phase = "cleanup" -> 2
      [] phase = "exited" -> 3

NoJobAccepted == ~(job.status = "none" /\ job'.status # "none")

SequenceOnce ==
    /\ shutdown'.shutdown_requested
    /\ PhaseOrder(shutdown'.phase) >= PhaseOrder(shutdown.phase)

=============================================================================
